---- MODULE Spec2Model ----
(***************************************************************************)
(* The CRQ tracker dashboard (DashboardPage) of both page variants:        *)
(*   "early"    : src/src/app/page.tsx   (storage key crq_list)             *)
(*   "extended" : src/unnamed/part_000   (storage key crq_list_v3, hook     *)
(*                useLocalStorage)                                          *)
(* The state is the component state of DashboardPage plus the value held   *)
(* by browser storage under the store key.  Each action is one event       *)
(* handler, run to completion together with the effects React commits for  *)
(* the state it sets.                                                       *)
(***************************************************************************)
EXTENDS Integers, Sequences, FiniteSets, TLC

VARIABLES
  variant,               \* which page is running: "early" or "extended"
  mounted,               \* FALSE between a page (re)load and the load effect
  crqs,                  \* useState<CRQ[]> / useLocalStorage storedValue
  storage,               \* localStorage value under the store key
  isFormOpen,
  editingCrq,
  isCopyOpen,
  crqToCopy,
  isReviewerModalOpen,
  reviewerName,
  selectedCrqForReview,
  statusToSetForReview,
  writeFailed,           \* history: a storage write has thrown in this run
  atPromptOpen,          \* history: the list and the store when the open prompt was opened
  lastOp,                \* history: the handler that ran last, its target and its storage write
  crqNumberFilter,       \* the six filters of the dashboard
  summaryFilter,
  statusFilter,
  riskFilter,
  dateFilter,
  reviewerFilter,
  formValues,            \* the field values of the open form (CrqFormComponent, useForm)
  customFields,          \* useLocalStorage crq_custom_fields_v1 (extended page)
  copySections,          \* the sections generateCopySections returned for crqToCopy
  isExportModalOpen,
  selectedColumns,       \* ExportDialog: the columns ticked
  exportedRows,          \* output: the rows of the sheet exported by the step just taken
  isPasswordModalOpen,
  passwordInput,
  configTarget,          \* 'fields', 'groups' or null
  isConfigModalOpen,
  isGroupsModalOpen,
  wrongSubmits,          \* history: wrong passwords submitted since the page loaded
  otherTab               \* the page in a second browser tab on the same storage

dashboardVars ==
  <<variant, mounted, crqs, storage, isFormOpen, editingCrq, isCopyOpen, crqToCopy,
    isReviewerModalOpen, reviewerName, selectedCrqForReview, statusToSetForReview,
    writeFailed, atPromptOpen, lastOp>>

filterVars ==
  <<crqNumberFilter, summaryFilter, statusFilter, riskFilter, dateFilter, reviewerFilter>>

formVars == <<formValues>>

templateVars == <<customFields, copySections>>

exportVars == <<isExportModalOpen, selectedColumns, exportedRows>>

\* the state of the export and configuration dialogs
adminVars ==
  <<isPasswordModalOpen, passwordInput, configTarget, isConfigModalOpen,
    isGroupsModalOpen, wrongSubmits>>

restVars == <<exportVars, adminVars, otherTab>>

vars == <<dashboardVars, filterVars, formVars, templateVars, restVars>>

----------------------------------------------------------------------------
(* Bounds *)

MaxCrqs == 2

\* entries a list of the form can grow to
MaxEntries == 2

\* wrong admin passwords counted in a run
MaxWrong == 2

----------------------------------------------------------------------------
(* Values *)

Variants == {"early", "extended"}

\* JavaScript undefined (an absent key reads as undefined too) and null
Undefined == "undefined"
Null == [null |-> TRUE]

Falsy(v) == v \in {Undefined, ""}

\* type Status: "Declined" in the extended page, "Rejected" in the early one
DeclinedStatus(v) == IF v = "early" THEN "Rejected" ELSE "Declined"
Status(v) == {"Pending", "Approved", DeclinedStatus(v), "Implemented", "Closed"}

\* names a reviewer can type into the prompt
Names == {"ann", "bob"}

\* implementationStartDate: a Date object, its ISO string, or undefined
NoDate == [tag |-> "undefined", t |-> 0]
DateOf(t) == [tag |-> "Date", t |-> t]
IsoOf(t) == [tag |-> "string", t |-> t]

\* the values a valid form submission can carry (formSchema output)
FormValues ==
  { [summary |-> "s1", implementationStartDate |-> NoDate],
    [summary |-> "s2", implementationStartDate |-> DateOf(1)] }

\* an id and a sysId for every record that two tabs can hold
UUIDs == 1 .. (4 * MaxCrqs)

NoId == 0
NullStatus == "null"

\* what localStorage holds under the store key
Absent == [kind |-> "absent", items |-> <<>>]
Corrupt == [kind |-> "corrupt", items |-> <<>>]
Json(items) == [kind |-> "json", items |-> items]

\* history record of the handler that ran last
Op(op, id, status, prev, read, write) ==
  [op |-> op, id |-> id, status |-> status, prev |-> prev, read |-> read, write |-> write]

\* history record of the state in which the reviewer prompt was opened
NoSnapshot == [open |-> FALSE, crqs |-> <<>>, storage |-> Absent]
Snapshot(list, st) == [open |-> TRUE, crqs |-> list, storage |-> st]

WriteResult(ok) == IF ok THEN "ok" ELSE "failed"

\* the outcomes a storage write can have now: setItem returns, or throws (quota
\* exceeded, storage disabled); at most one write throws in a run
WriteOutcomes == IF writeFailed THEN {TRUE} ELSE {TRUE, FALSE}

\* a write was attempted with outcome ok
Wrote(ok) == writeFailed' = (writeFailed \/ ~ok)

----------------------------------------------------------------------------
(* Pure functions of the code *)

\* the ids and sysIds a list of records uses
UsedUUIDs(list) ==
  {list[i].id : i \in DOMAIN list} \cup {list[i].sysId : i \in DOMAIN list}

\* mutant: randomUUID returns the same value on every call
randomUUID_First(used) ==
  CHOOSE u \in UUIDs : \A w \in UUIDs : u <= w

\* crypto.randomUUID(): a value that no record holds yet
randomUUID(used) ==
  CHOOSE u \in UUIDs \ used : \A w \in UUIDs \ used : u <= w

\* mutant: the serialized record loses its implementation date
StringifyCrq_DropsDate(c) ==
  [c EXCEPT !.implementationStartDate = NoDate]

\* JSON.stringify of one record: a Date becomes its ISO string, a key whose
\* value is undefined is dropped (it reads back as undefined)
StringifyCrq(c) ==
  [c EXCEPT !.implementationStartDate = IF @.tag = "Date" THEN IsoOf(@.t) ELSE @]

JSONstringify(list) == [i \in DOMAIN list |-> StringifyCrq(list[i])]

\* JSON.parse of a serialized list: strings stay strings
JSONparse(items) == items

\* new Date(value) in the form's defaultValues
NewDate(d) == IF d.tag = "undefined" THEN NoDate ELSE DateOf(d.t)

\* mutant: a write keeps the stored records that the written list does not hold
setItem_Merges(old, value, ok) ==
  IF ok
  THEN LET Missing(c) == \A i \in DOMAIN value : value[i].id # c.id
       IN Json(JSONstringify(value) \o SelectSeq(old.items, Missing))
  ELSE old

\* mutant: the list is never written to storage
setItem_NeverWrites(old, value, ok) == old

\* localStorage.setItem(key, JSON.stringify(value)); ok = the write did not throw
setItem(old, value, ok) == IF ok THEN Json(JSONstringify(value)) ELSE old

\* mutant: an edit keeps the record's status and reviewer in the extended page too
SavedCrq_KeepsStatus(v, editing, data, used) ==
  IF editing # Null
  THEN [editing EXCEPT !.summary = data.summary,
                       !.implementationStartDate = data.implementationStartDate]
  ELSE LET id == randomUUID(used)
       IN [id |-> id,
           sysId |-> randomUUID(used \cup {id}),
           status |-> "Pending",
           reviewer |-> Undefined,
           summary |-> data.summary,
           implementationStartDate |-> data.implementationStartDate]

\* the record handleSave builds
SavedCrq(v, editing, data, used) ==
  IF editing # Null
  THEN IF v = "extended"
       THEN [editing EXCEPT !.summary = data.summary,
                            !.implementationStartDate = data.implementationStartDate,
                            !.status = "Pending",
                            !.reviewer = Undefined]
       ELSE [editing EXCEPT !.summary = data.summary,
                            !.implementationStartDate = data.implementationStartDate]
  ELSE LET id == randomUUID(used)
       IN [id |-> id,
           sysId |-> randomUUID(used \cup {id}),
           status |-> "Pending",
           reviewer |-> Undefined,
           summary |-> data.summary,
           implementationStartDate |-> data.implementationStartDate]

\* mutant: an edit keeps the edited record only (filter instead of map)
SavedCrqs_DropsOthers(list, editing, saved) ==
  IF editing # Null
  THEN [i \in 1 .. Cardinality({k \in DOMAIN list : list[k].id = editing.id}) |-> saved]
  ELSE Append(list, saved)

\* mutant: a new record replaces the list instead of being appended to it
SavedCrqs_CreateReplaces(list, editing, saved) ==
  IF editing # Null
  THEN [i \in DOMAIN list |-> IF list[i].id = editing.id THEN saved ELSE list[i]]
  ELSE <<saved>>

\* mutant: an edit takes the record out of its place and puts the saved one last
SavedCrqs_MovesToEnd(list, editing, saved) ==
  IF editing # Null
  THEN Append(SelectSeq(list, LAMBDA crq : crq.id # editing.id), saved)
  ELSE Append(list, saved)

\* the list handleSave stores
SavedCrqs(list, editing, saved) ==
  IF editing # Null
  THEN [i \in DOMAIN list |-> IF list[i].id = editing.id THEN saved ELSE list[i]]
  ELSE Append(list, saved)

\* mutant: updateCrqStatus overwrites every record, not the matching one
UpdatedCrqs_AllRecords(list, id, status, reviewer) ==
  [i \in DOMAIN list |->
     [list[i] EXCEPT !.status = status,
                     !.reviewer = IF Falsy(reviewer) THEN @ ELSE reviewer]]

\* mutant: the reviewer passed to updateCrqStatus is not stored
UpdatedCrqs_IgnoresReviewer(list, id, status, reviewer) ==
  [i \in DOMAIN list |->
     IF list[i].id = id THEN [list[i] EXCEPT !.status = status] ELSE list[i]]

\* the list updateCrqStatus stores
UpdatedCrqs(list, id, status, reviewer) ==
  [i \in DOMAIN list |->
     IF list[i].id = id
     THEN [list[i] EXCEPT !.status = status,
                          !.reviewer = IF Falsy(reviewer) THEN @ ELSE reviewer]
     ELSE list[i]]

\* the early page's load effect fills in missing id, sysId and status
InitializedCrqs(list) ==
  [i \in DOMAIN list |->
     [list[i] EXCEPT !.id = IF @ = NoId THEN randomUUID(UsedUUIDs(list)) ELSE @,
                     !.sysId = IF @ = NoId THEN randomUUID(UsedUUIDs(list)) ELSE @,
                     !.status = IF Falsy(@) THEN "Pending" ELSE @]]

\* mutant: the Edit item of the row menu is never disabled
EditEnabled_Always(v, st) == st \in Status(v)

\* the row menu: which items are not disabled
EditEnabled(v, st) ==
  IF v = "extended" THEN st \notin {"Implemented", "Closed"} ELSE st # "Closed"

\* mutant: no status item of the row menu is ever disabled
StatusItemEnabled_Always(v, st, target) == target \in Status(v)

StatusItemEnabled(v, st, target) ==
  IF v = "extended"
  THEN CASE target = "Approved" -> st \notin {"Approved", "Implemented", "Closed"}
         [] target = "Declined" -> st \notin {"Declined", "Implemented", "Closed"}
         [] target = "Implemented" -> st \notin {"Implemented", "Closed"}
         [] target = "Closed" -> st # "Closed"
         [] OTHER -> FALSE
  ELSE CASE target = "Approved" -> st \notin {"Closed", "Approved"}
         [] target = "Rejected" -> st \notin {"Closed", "Rejected"}
         [] target = "Implemented" -> st \notin {"Closed", "Implemented"}
         [] target = "Closed" -> st # "Closed"
         [] OTHER -> FALSE

\* mutant: Approved and Declined/Rejected ask for a name whoever reviewed before
NeedsReviewer_Always(v, crq, status) ==
  status \in {"Approved", DeclinedStatus(v)}

\* mutant: only Approved asks for the reviewer's name
NeedsReviewer_OnlyApproved(v, crq, status) ==
  status = "Approved" /\ Falsy(crq.reviewer)

\* handleStatusChange asks for the reviewer's name first
NeedsReviewer(v, crq, status) ==
  status \in {"Approved", DeclinedStatus(v)} /\ Falsy(crq.reviewer)

\* no dialog covers the dashboard
NoModal == ~isFormOpen /\ ~isCopyOpen /\ ~isReviewerModalOpen

----------------------------------------------------------------------------
(* The filters of the dashboard *)

\* a JavaScript string as its sequence of characters, and an absent optional string
Str(chars) == [tag |-> "string", chars |-> chars]
UndefinedStr == [tag |-> "undefined", chars |-> <<>>]

\* the characters filter texts and record texts are made of
Chars == {"a", "A", "b", "B"}

\* String.prototype.toLowerCase, character by character
LowerChar(c) == CASE c = "A" -> "a" [] c = "B" -> "b" [] OTHER -> c

\* mutant: toLowerCase leaves the text as it is
toLowerCase_Identity(chars) == chars

toLowerCase(chars) == [i \in DOMAIN chars |-> LowerChar(chars[i])]

\* String.prototype.includes
includes(chars, search) ==
  \E k \in 0 .. (Len(chars) - Len(search)) :
    SubSeq(chars, k + 1, k + Len(search)) = search

\* crq.field?.toLowerCase().includes(filter.toLowerCase()): undefined, hence
\* false, when the field is absent
OptionalIncludes(field, filter) ==
  /\ field.tag = "string"
  /\ includes(toLowerCase(field.chars), toLowerCase(filter))

\* the instants the model tells apart within one calendar day
InstantsPerDay == 2

\* format(date, 'yyyy-MM-dd') of a Date or of new Date(iso string): the calendar
\* day of the instant t
formatDay(d) == d.t \div InstantsPerDay

\* the six predicates of filteredCrqs
PassesCrqNumber(crq) ==
  crqNumberFilter = <<>> \/ OptionalIncludes(crq.crqNumber, crqNumberFilter)

PassesSummary(crq) ==
  summaryFilter = <<>> \/ includes(toLowerCase(crq.summary.chars), toLowerCase(summaryFilter))

PassesStatus(crq) == statusFilter = "All" \/ crq.status = statusFilter

PassesRisk(crq) == riskFilter = "All" \/ crq.risk = riskFilter

PassesReviewer(crq) ==
  reviewerFilter = <<>> \/ OptionalIncludes(crq.reviewer, reviewerFilter)

PassesDate(crq) ==
  IF dateFilter.tag = "undefined" THEN TRUE
  ELSE IF crq.implementationStartDate.tag = "undefined" THEN FALSE
  ELSE formatDay(NewDate(crq.implementationStartDate)) = formatDay(dateFilter)

\* filteredCrqs: the chain of Array.prototype.filter calls, in the order of each page
filteredCrqs(v, list) ==
  IF v = "extended"
  THEN SelectSeq(SelectSeq(SelectSeq(SelectSeq(SelectSeq(SelectSeq(list,
         PassesCrqNumber), PassesSummary), PassesStatus), PassesRisk),
         PassesReviewer), PassesDate)
  ELSE SelectSeq(SelectSeq(SelectSeq(SelectSeq(SelectSeq(SelectSeq(list,
         PassesStatus), PassesRisk), PassesCrqNumber), PassesSummary),
         PassesReviewer), PassesDate)

\* the filters as useState initializes them and as handleClearFilters sets them
FiltersCleared ==
  /\ crqNumberFilter = <<>>
  /\ summaryFilter = <<>>
  /\ statusFilter = "All"
  /\ riskFilter = "All"
  /\ dateFilter = NoDate
  /\ reviewerFilter = <<>>

\* the six setters as handleClearFilters calls them
ClearFilters ==
  /\ crqNumberFilter' = <<>>
  /\ summaryFilter' = <<>>
  /\ statusFilter' = "All"
  /\ riskFilter' = "All"
  /\ dateFilter' = NoDate
  /\ reviewerFilter' = <<>>

\* no form is mounted (the dialog content, and useForm with it, is unmounted)
NoForm ==
  [open |-> FALSE, summary |-> "", briefDescription |-> "", purpose |-> "",
   implementationStartDate |-> NoDate, applications |-> <<>>,
   validationChanges |-> <<>>, backoutChanges |-> <<>>]

\* generateCopySections(null): no section
NoSections == [title \in {} |-> <<>>]

\* the ids of DASHBOARD_COLUMNS; ExportDialog keeps the ticked ids in an array
\* that is read by includes() only, so its order is not kept
DASHBOARD_COLUMNS ==
  {"crqNumber", "summary", "risk", "status", "implementationDate", "reviewer"}

\* a tab whose page has not loaded
NoTab == [mounted |-> FALSE, crqs |-> <<>>]

\* neither the export dialog nor a configuration dialog covers the dashboard
NoConfigModal ==
  ~isExportModalOpen /\ ~isPasswordModalOpen /\ ~isConfigModalOpen /\ ~isGroupsModalOpen

\* nothing has been exported
NoExport == <<>>

\* the export and configuration dialogs as useState initializes them
RestInit ==
  /\ isExportModalOpen = FALSE
  /\ selectedColumns = DASHBOARD_COLUMNS
  /\ exportedRows = NoExport
  /\ isPasswordModalOpen = FALSE
  /\ passwordInput = ""
  /\ configTarget = "null"
  /\ isConfigModalOpen = FALSE
  /\ isGroupsModalOpen = FALSE
  /\ wrongSubmits = 0
  /\ otherTab = NoTab

\* the same state after a page load
ResetRest ==
  /\ isExportModalOpen' = FALSE
  /\ selectedColumns' = DASHBOARD_COLUMNS
  /\ UNCHANGED exportedRows
  /\ isPasswordModalOpen' = FALSE
  /\ passwordInput' = ""
  /\ configTarget' = "null"
  /\ isConfigModalOpen' = FALSE
  /\ isGroupsModalOpen' = FALSE
  /\ wrongSubmits' = 0
  /\ UNCHANGED otherTab

----------------------------------------------------------------------------
(* Initial state: the page has been requested and nothing has run yet *)

NoOp == Op("init", NoId, "", "", "", "none")

Init ==
  /\ variant \in Variants
  /\ mounted = FALSE
  /\ crqs = <<>>
  /\ storage \in {Absent, Corrupt}
  /\ isFormOpen = FALSE
  /\ editingCrq = Null
  /\ isCopyOpen = FALSE
  /\ crqToCopy = Null
  /\ isReviewerModalOpen = FALSE
  /\ reviewerName = ""
  /\ selectedCrqForReview = Null
  /\ statusToSetForReview = NullStatus
  /\ writeFailed = FALSE
  /\ atPromptOpen = NoSnapshot
  /\ lastOp = NoOp
  /\ FiltersCleared
  /\ formValues = NoForm
  /\ customFields = <<>>
  /\ copySections = NoSections
  /\ RestInit

----------------------------------------------------------------------------
(* Startup *)

\* what the load effect puts into the list
LoadedCrqs(v, st) ==
  IF st.kind = "json"
  THEN IF v = "early" THEN InitializedCrqs(JSONparse(st.items)) ELSE JSONparse(st.items)
  ELSE <<>>

\* mutant: the hook's write effect is not held back until the read has run
\* and stores the initial value
StorageAfterMount_InitialValue(v, st, ok) ==
  IF v = "early"
  THEN IF st.kind = "corrupt" THEN Absent ELSE st
  ELSE setItem(st, <<>>, ok)

\* what the store key holds once the mount effects have run
StorageAfterMount(v, st, ok) ==
  IF v = "early"
  THEN IF st.kind = "corrupt" THEN Absent ELSE st
  ELSE setItem(st, LoadedCrqs(v, st), ok)

\* The load effect of the page (early) or the two effects of useLocalStorage
\* (extended: read, then write the value back once isInitialized is set).
Mount ==
  /\ ~mounted
  /\ \E ok \in WriteOutcomes :
       /\ crqs' = LoadedCrqs(variant, storage)
       /\ storage' = StorageAfterMount(variant, storage, ok)
       /\ IF variant = "early"
          THEN /\ UNCHANGED writeFailed
               /\ lastOp' = Op("mount", NoId, "", "", storage.kind, "none")
          ELSE /\ Wrote(ok)
               /\ lastOp' = Op("mount", NoId, "", "", storage.kind, WriteResult(ok))
  /\ mounted' = TRUE
  /\ atPromptOpen' = NoSnapshot
  /\ UNCHANGED <<variant, isFormOpen, editingCrq, isCopyOpen, crqToCopy,
                 isReviewerModalOpen, reviewerName, selectedCrqForReview,
                 statusToSetForReview>>
  /\ UNCHANGED <<filterVars, formVars, templateVars, restVars>>

\* The user reloads the page: component state is gone, storage stays.
Reload ==
  /\ mounted
  /\ mounted' = FALSE
  /\ crqs' = <<>>
  /\ isFormOpen' = FALSE
  /\ editingCrq' = Null
  /\ isCopyOpen' = FALSE
  /\ crqToCopy' = Null
  /\ isReviewerModalOpen' = FALSE
  /\ reviewerName' = ""
  /\ selectedCrqForReview' = Null
  /\ statusToSetForReview' = NullStatus
  /\ atPromptOpen' = NoSnapshot
  /\ lastOp' = Op("reload", NoId, "", "", "", "none")
  /\ ClearFilters
  /\ formValues' = NoForm
  /\ copySections' = NoSections
  /\ ResetRest
  /\ UNCHANGED <<variant, storage, writeFailed, customFields>>

----------------------------------------------------------------------------
(* The form *)

handleOpenNew ==
  /\ mounted /\ NoModal
  /\ editingCrq' = Null
  /\ isFormOpen' = TRUE
  /\ atPromptOpen' = NoSnapshot
  /\ lastOp' = Op("handleOpenNew", NoId, "", "", "", "none")
  /\ UNCHANGED <<variant, mounted, crqs, storage, isCopyOpen, crqToCopy,
                 isReviewerModalOpen, reviewerName, selectedCrqForReview,
                 statusToSetForReview, writeFailed>>
  /\ UNCHANGED <<filterVars, formVars, templateVars, restVars>>

handleOpenEdit(i) ==
  /\ mounted /\ NoModal
  /\ EditEnabled(variant, crqs[i].status)
  /\ editingCrq' = crqs[i]
  /\ isFormOpen' = TRUE
  /\ atPromptOpen' = NoSnapshot
  /\ lastOp' = Op("handleOpenEdit", crqs[i].id, "", crqs[i].status, "", "none")
  /\ UNCHANGED <<variant, mounted, crqs, storage, isCopyOpen, crqToCopy,
                 isReviewerModalOpen, reviewerName, selectedCrqForReview,
                 statusToSetForReview, writeFailed>>
  /\ UNCHANGED <<filterVars, formVars, templateVars, restVars>>

\* Cancel button of the form, or the dialog's own close (onOpenChange).
\* The code leaves editingCrq as it is; it is read only while the form is open,
\* and handleOpenNew and handleOpenEdit both assign it before opening the form,
\* so the closed form's editingCrq is not kept.
CancelForm ==
  /\ mounted /\ isFormOpen
  /\ isFormOpen' = FALSE
  /\ editingCrq' = Null
  /\ atPromptOpen' = NoSnapshot
  /\ lastOp' = Op("cancelForm", NoId, "", "", "", "none")
  /\ UNCHANGED <<variant, mounted, crqs, storage, isCopyOpen, crqToCopy,
                 isReviewerModalOpen, reviewerName, selectedCrqForReview,
                 statusToSetForReview, writeFailed>>
  /\ formValues' = NoForm
  /\ UNCHANGED <<filterVars, templateVars, restVars>>

\* the early page calls localStorage.setItem inside the handler, uncaught:
\* a write that throws ends the handler there
Aborts(v, ok) == v = "early" /\ ~ok

\* Submitting valid form values: handleSave(data)
handleSave(data, ok) ==
  /\ mounted /\ isFormOpen
  /\ editingCrq = Null => Len(crqs) < MaxCrqs
  /\ LET savedCrq == SavedCrq(variant, editingCrq, data,
                           UsedUUIDs(crqs) \cup UsedUUIDs(otherTab.crqs))
         updatedCrqs == SavedCrqs(crqs, editingCrq, savedCrq)
     IN /\ crqs' = updatedCrqs
        /\ storage' = setItem(storage, updatedCrqs, ok)
        /\ Wrote(ok)
        /\ IF Aborts(variant, ok)
           THEN UNCHANGED <<isFormOpen, editingCrq, crqToCopy, isCopyOpen>>
           ELSE /\ isFormOpen' = FALSE
                /\ editingCrq' = Null
                /\ crqToCopy' = savedCrq
                /\ isCopyOpen' = TRUE
        /\ lastOp' = Op("handleSave",
                        IF editingCrq # Null THEN editingCrq.id ELSE NoId,
                        savedCrq.status,
                        IF editingCrq # Null THEN editingCrq.status ELSE "",
                        "", WriteResult(ok))
  /\ atPromptOpen' = NoSnapshot
  /\ UNCHANGED <<variant, mounted, isReviewerModalOpen, reviewerName,
                 selectedCrqForReview, statusToSetForReview>>
  /\ formValues' = IF Aborts(variant, ok) THEN formValues ELSE NoForm
  /\ UNCHANGED <<filterVars, templateVars, restVars>>

\* Close button of the "CRQ Saved Successfully" dialog.  The code leaves
\* crqToCopy as it is; it is rendered only inside this dialog, which handleSave
\* alone opens, after assigning it, so the closed dialog's crqToCopy is not kept.
CloseCopy ==
  /\ mounted /\ isCopyOpen
  /\ isCopyOpen' = FALSE
  /\ crqToCopy' = Null
  /\ atPromptOpen' = NoSnapshot
  /\ lastOp' = Op("closeCopy", NoId, "", "", "", "none")
  /\ UNCHANGED <<variant, mounted, crqs, storage, isFormOpen, editingCrq,
                 isReviewerModalOpen, reviewerName, selectedCrqForReview,
                 statusToSetForReview, writeFailed>>
  /\ UNCHANGED <<filterVars, formVars, templateVars, restVars>>

----------------------------------------------------------------------------
(* Status changes and the reviewer prompt *)

\* A status item of the row menu of the i-th record: handleStatusChange(crq, status)
handleStatusChange(i, status, ok) ==
  /\ mounted /\ NoModal
  /\ StatusItemEnabled(variant, crqs[i].status, status)
  /\ LET crq == crqs[i]
     IN IF NeedsReviewer(variant, crq, status)
        THEN /\ selectedCrqForReview' = crq
             /\ statusToSetForReview' = status
             /\ isReviewerModalOpen' = TRUE
             /\ atPromptOpen' = Snapshot(crqs, storage)
             /\ lastOp' = Op("handleStatusChange", crq.id, status, crq.status, "", "none")
             /\ UNCHANGED <<crqs, storage, writeFailed>>
        ELSE /\ crqs' = UpdatedCrqs(crqs, crq.id, status, crq.reviewer)
             /\ storage' = setItem(storage, crqs', ok)
             /\ Wrote(ok)
             /\ lastOp' = Op("handleStatusChange", crq.id, status, crq.status, "",
                             WriteResult(ok))
             /\ atPromptOpen' = NoSnapshot
             /\ UNCHANGED <<selectedCrqForReview, statusToSetForReview,
                            isReviewerModalOpen>>
  /\ UNCHANGED <<variant, mounted, isFormOpen, editingCrq, isCopyOpen, crqToCopy,
                 reviewerName>>
  /\ UNCHANGED <<filterVars, formVars, templateVars, restVars>>

\* typing into the prompt's Name input
TypeReviewerName(n) ==
  /\ mounted /\ isReviewerModalOpen
  /\ reviewerName' = n
  /\ UNCHANGED atPromptOpen
  /\ lastOp' = Op("setReviewerName", NoId, "", "", "", "none")
  /\ UNCHANGED <<variant, mounted, crqs, storage, isFormOpen, editingCrq, isCopyOpen,
                 crqToCopy, isReviewerModalOpen, selectedCrqForReview,
                 statusToSetForReview, writeFailed>>
  /\ UNCHANGED <<filterVars, formVars, templateVars, restVars>>

\* handleConfirmReview accepts the prompt
ReviewAccepted ==
  selectedCrqForReview # Null /\ statusToSetForReview # NullStatus /\ ~Falsy(reviewerName)

\* Confirm button of the prompt: handleConfirmReview.  On the two paths where
\* the handler does not close the prompt itself (the "Reviewer name is required."
\* toast, and the early page's write that throws), whether the prompt stays open
\* is decided by the AlertDialogAction component, which is not part of the
\* sources: both outcomes are allowed (stays).
handleConfirmReview(ok, stays) ==
  /\ mounted /\ isReviewerModalOpen
  /\ IF ReviewAccepted
     THEN /\ crqs' = UpdatedCrqs(crqs, selectedCrqForReview.id, statusToSetForReview,
                                 reviewerName)
          /\ storage' = setItem(storage, crqs', ok)
          /\ Wrote(ok)
          /\ IF Aborts(variant, ok)
             THEN /\ isReviewerModalOpen' = stays
                  /\ selectedCrqForReview' = IF stays THEN selectedCrqForReview ELSE Null
                  /\ statusToSetForReview' = IF stays THEN statusToSetForReview
                                                      ELSE NullStatus
                  /\ UNCHANGED reviewerName
             ELSE /\ isReviewerModalOpen' = FALSE
                  /\ reviewerName' = ""
                  /\ selectedCrqForReview' = Null
                  /\ statusToSetForReview' = NullStatus
          /\ lastOp' = Op("handleConfirmReview", selectedCrqForReview.id,
                          statusToSetForReview, selectedCrqForReview.status,
                          reviewerName, WriteResult(ok))
     ELSE /\ isReviewerModalOpen' = stays
          /\ selectedCrqForReview' = IF stays THEN selectedCrqForReview ELSE Null
          /\ statusToSetForReview' = IF stays THEN statusToSetForReview ELSE NullStatus
          /\ lastOp' = Op("handleConfirmReview", NoId, "", "", reviewerName, "none")
          /\ UNCHANGED <<crqs, storage, reviewerName, writeFailed>>
  /\ UNCHANGED <<variant, mounted, isFormOpen, editingCrq, isCopyOpen, crqToCopy,
                 atPromptOpen>>
  /\ UNCHANGED <<filterVars, formVars, templateVars, restVars>>

\* Cancel button of the prompt.  The code leaves selectedCrqForReview and
\* statusToSetForReview as they are; they are read only by handleConfirmReview,
\* which runs only while the prompt is open, and handleStatusChange assigns both
\* before opening it, so the closed prompt's record and target are not kept
\* (here, in DismissReview and when a refused Confirm closes the prompt).
\* reviewerName is kept as the code leaves it.
CancelReview ==
  /\ mounted /\ isReviewerModalOpen
  /\ reviewerName' = ""
  /\ isReviewerModalOpen' = FALSE
  /\ selectedCrqForReview' = Null
  /\ statusToSetForReview' = NullStatus
  /\ UNCHANGED atPromptOpen
  /\ lastOp' = Op("cancelReview", NoId, "", "", "", "none")
  /\ UNCHANGED <<variant, mounted, crqs, storage, isFormOpen, editingCrq, isCopyOpen,
                 crqToCopy, writeFailed>>
  /\ UNCHANGED <<filterVars, formVars, templateVars, restVars>>

\* the prompt closed by the dialog itself (Escape): onOpenChange(false)
DismissReview ==
  /\ mounted /\ isReviewerModalOpen
  /\ isReviewerModalOpen' = FALSE
  /\ selectedCrqForReview' = Null
  /\ statusToSetForReview' = NullStatus
  /\ UNCHANGED atPromptOpen
  /\ lastOp' = Op("dismissReview", NoId, "", "", "", "none")
  /\ UNCHANGED <<variant, mounted, crqs, storage, isFormOpen, editingCrq, isCopyOpen,
                 crqToCopy, reviewerName, writeFailed>>
  /\ UNCHANGED <<filterVars, formVars, templateVars, restVars>>

----------------------------------------------------------------------------
(* Specification *)

Next ==
  \/ Mount
  \/ Reload
  \/ handleOpenNew
  \/ \E i \in DOMAIN crqs : handleOpenEdit(i)
  \/ CancelForm
  \/ \E data \in FormValues, ok \in WriteOutcomes : handleSave(data, ok)
  \/ CloseCopy
  \/ \E i \in DOMAIN crqs, status \in Status(variant), ok \in WriteOutcomes :
       handleStatusChange(i, status, ok)
  \/ \E n \in Names \cup {""} : TypeReviewerName(n)
  \/ \E ok \in WriteOutcomes, stays \in BOOLEAN : handleConfirmReview(ok, stays)
  \/ CancelReview
  \/ DismissReview

Spec == Init /\ [][Next]_vars

----------------------------------------------------------------------------
(* The filter bar: the setters of the six filters and Clear Filters, over a
   store drawn from records that differ in every filtered field *)

\* a record of the store with the fields filteredCrqs reads
FilterRecord(crqNumber, summary, status, risk, reviewer, date) ==
  [id |-> NoId, sysId |-> NoId, status |-> status, reviewer |-> reviewer,
   summary |-> summary, implementationStartDate |-> date,
   crqNumber |-> crqNumber, risk |-> risk]

FilterRecords(v) ==
  { FilterRecord(UndefinedStr, Str(<<"a", "b">>), "Pending", "Low", UndefinedStr, NoDate),
    FilterRecord(Str(<<"A", "b">>), Str(<<"b", "A">>), "Approved", "High",
                 Str(<<"a", "A">>), DateOf(0)),
    FilterRecord(Str(<<"b">>), Str(<<"b">>), "Approved", "Low", Str(<<"b">>), IsoOf(1)),
    FilterRecord(Str(<<"a">>), Str(<<"A", "a">>), DeclinedStatus(v), Undefined,
                 Str(<<"A">>), DateOf(2)),
    FilterRecord(UndefinedStr, Str(<<"a">>), "Implemented", "Medium", UndefinedStr,
                 IsoOf(3)) }

\* the stores of up to MaxCrqs records, each record with its own id
FilterStores(v) ==
  UNION { { [i \in 1 .. n |-> [f[i] EXCEPT !.id = i, !.sysId = n + i]] :
              f \in [1 .. n -> FilterRecords(v)] } : n \in 0 .. MaxCrqs }

\* what can be typed into a text filter, picked in a select, picked in the calendar
FilterTexts == {<<>>, <<"A">>, <<"a", "B">>, <<"b">>}
RiskOptions == {"All", "Low", "Medium", "High"}
StatusOptions(v) == {"All"} \cup Status(v)
FilterDates == {NoDate, DateOf(1), DateOf(2)}

FilterInit ==
  /\ variant \in Variants
  /\ mounted = TRUE
  /\ crqs \in FilterStores(variant)
  /\ storage = Json(JSONstringify(crqs))
  /\ isFormOpen = FALSE
  /\ editingCrq = Null
  /\ isCopyOpen = FALSE
  /\ crqToCopy = Null
  /\ isReviewerModalOpen = FALSE
  /\ reviewerName = ""
  /\ selectedCrqForReview = Null
  /\ statusToSetForReview = NullStatus
  /\ writeFailed = FALSE
  /\ atPromptOpen = NoSnapshot
  /\ lastOp = NoOp
  /\ FiltersCleared
  /\ formValues = NoForm
  /\ customFields = <<>>
  /\ copySections = NoSections
  /\ RestInit

\* the dashboard state a filter action leaves alone
FilterFrame ==
  UNCHANGED <<variant, mounted, crqs, storage, isFormOpen, editingCrq, isCopyOpen,
              crqToCopy, isReviewerModalOpen, reviewerName, selectedCrqForReview,
              statusToSetForReview, writeFailed, atPromptOpen, formVars, templateVars, restVars>>

\* history: the filter bar acted; only Clear Filters is told apart from the setters
FilterOp(name) ==
  lastOp' = Op(IF name = "handleClearFilters" THEN name ELSE "setFilter",
               NoId, "", "", "", "none")

setCrqNumberFilter(text) ==
  /\ crqNumberFilter' = text
  /\ FilterOp("setCrqNumberFilter")
  /\ UNCHANGED <<summaryFilter, statusFilter, riskFilter, dateFilter, reviewerFilter>>
  /\ FilterFrame

setSummaryFilter(text) ==
  /\ summaryFilter' = text
  /\ FilterOp("setSummaryFilter")
  /\ UNCHANGED <<crqNumberFilter, statusFilter, riskFilter, dateFilter, reviewerFilter>>
  /\ FilterFrame

setStatusFilter(option) ==
  /\ statusFilter' = option
  /\ FilterOp("setStatusFilter")
  /\ UNCHANGED <<crqNumberFilter, summaryFilter, riskFilter, dateFilter, reviewerFilter>>
  /\ FilterFrame

setRiskFilter(option) ==
  /\ riskFilter' = option
  /\ FilterOp("setRiskFilter")
  /\ UNCHANGED <<crqNumberFilter, summaryFilter, statusFilter, dateFilter, reviewerFilter>>
  /\ FilterFrame

setDateFilter(date) ==
  /\ dateFilter' = date
  /\ FilterOp("setDateFilter")
  /\ UNCHANGED <<crqNumberFilter, summaryFilter, statusFilter, riskFilter, reviewerFilter>>
  /\ FilterFrame

setReviewerFilter(text) ==
  /\ reviewerFilter' = text
  /\ FilterOp("setReviewerFilter")
  /\ UNCHANGED <<crqNumberFilter, summaryFilter, statusFilter, riskFilter, dateFilter>>
  /\ FilterFrame

\* the Clear Filters button (extended page only)
handleClearFilters ==
  /\ variant = "extended"
  /\ ClearFilters
  /\ FilterOp("handleClearFilters")
  /\ FilterFrame

FilterNext ==
  \/ \E text \in FilterTexts \ {<<"b">>} : setCrqNumberFilter(text)
  \/ \E text \in FilterTexts \ {<<"A">>} : setSummaryFilter(text)
  \/ \E option \in StatusOptions(variant) : setStatusFilter(option)
  \/ \E option \in RiskOptions : setRiskFilter(option)
  \/ \E date \in FilterDates : setDateFilter(date)
  \/ \E text \in FilterTexts \ {<<"a", "B">>, <<"b">>} : setReviewerFilter(text)
  \/ handleClearFilters

SpecFilter == FilterInit /\ [][FilterNext]_vars

----------------------------------------------------------------------------
(* Properties *)

Ids(list) == {list[i].id : i \in DOMAIN list}

\* the statuses that need a reviewer
ReviewedStatuses(v) == {"Approved", DeclinedStatus(v)}

\* the handlers that change the list
MutationOps == {"handleSave", "handleStatusChange", "handleConfirmReview"}

\* position of a status in Pending < {Approved, Declined/Rejected} < Implemented < Closed
Level(st) ==
  CASE st = "Pending" -> 0
    [] st \in {"Approved", "Declined", "Rejected"} -> 1
    [] st = "Implemented" -> 2
    [] st = "Closed" -> 3

\* a record with its implementation date turned back into a date value
NormalizedCrq(c) == [c EXCEPT !.implementationStartDate = NewDate(@)]

\* C1: in both variants, asking for Approved or Declined/Rejected on a record
\* without a reviewer opens the reviewer prompt and changes neither the list nor
\* the persisted store; while the prompt is open the list changes only by a
\* Confirm with a non-empty name; a Confirm with an empty name changes nothing.
C1_PromptBeforeMutation ==
  [][ /\ ( /\ lastOp'.op = "handleStatusChange"
           /\ lastOp'.status \in ReviewedStatuses(variant)
           /\ \E i \in DOMAIN crqs : crqs[i].id = lastOp'.id /\ Falsy(crqs[i].reviewer) )
         => ( /\ isReviewerModalOpen'
              /\ crqs' = crqs
              /\ storage' = storage
              /\ lastOp'.write = "none" )
      /\ (isReviewerModalOpen /\ mounted' /\ crqs' # crqs)
         => (lastOp'.op = "handleConfirmReview" /\ ~Falsy(reviewerName))
      /\ (lastOp'.op = "handleConfirmReview" /\ Falsy(reviewerName))
         => (crqs' = crqs /\ storage' = storage /\ lastOp'.write = "none")
    ]_vars

\* the prompt has just been opened for a Declined/Rejected request on the second
\* of two records, and nothing was changed
C1_Witness ==
  /\ isReviewerModalOpen
  /\ lastOp.op = "handleStatusChange"
  /\ lastOp.status = DeclinedStatus(variant)
  /\ lastOp.write = "none"
  /\ Len(crqs) = 2
  /\ lastOp.id = crqs[2].id
  /\ atPromptOpen = Snapshot(crqs, storage)

\* C2: starting from an empty store, every record whose status is Approved or
\* Declined/Rejected has a non-empty reviewer, in the list and in the persisted
\* store, in both variants.
C2_ReviewedHasReviewer ==
  /\ \A i \in DOMAIN crqs :
       crqs[i].status \in ReviewedStatuses(variant) => ~Falsy(crqs[i].reviewer)
  /\ \A i \in DOMAIN storage.items :
       storage.items[i].status \in ReviewedStatuses(variant)
         => ~Falsy(storage.items[i].reviewer)

\* a confirmed prompt has just declined/rejected a record
C2_Witness ==
  /\ lastOp.op = "handleConfirmReview"
  /\ lastOp.status = DeclinedStatus(variant)
  /\ \E i \in DOMAIN crqs :
       /\ crqs[i].id = lastOp.id
       /\ crqs[i].status = DeclinedStatus(variant)
       /\ crqs[i].reviewer = "ann"

\* C3: cancelling the reviewer prompt abandons the transition entirely: the list
\* and the persisted store are exactly as they were when the prompt was opened.
C3_CancelRestores ==
  lastOp.op = "cancelReview"
    => ( /\ atPromptOpen.open
         /\ crqs = atPromptOpen.crqs
         /\ storage = atPromptOpen.storage )

\* C4: in the extended variant, saving the form while editing a record leaves
\* that record with status Pending and no reviewer.
C4_EditResetsStatus ==
  (variant = "extended" /\ lastOp.op = "handleSave" /\ lastOp.id # NoId)
    => ( /\ \E i \in DOMAIN crqs : crqs[i].id = lastOp.id
         /\ \A i \in DOMAIN crqs :
              crqs[i].id = lastOp.id
                => (crqs[i].status = "Pending" /\ crqs[i].reviewer = Undefined) )

\* an Approved record of the extended variant has just been edited and saved
C4_Witness ==
  /\ variant = "extended"
  /\ lastOp.op = "handleSave"
  /\ lastOp.id # NoId
  /\ lastOp.prev = "Approved"

\* C5: in either variant no enabled status action takes a record from a later
\* level of Pending < {Approved, Declined/Rejected} < Implemented < Closed to an
\* earlier one.
C5_StatusOnlyForward ==
  [][ lastOp'.op \in {"handleStatusChange", "handleConfirmReview"}
        => \A i \in DOMAIN crqs : Level(crqs'[i].status) >= Level(crqs[i].status)
    ]_vars

\* C6: no operation removes a record: within a session the list never gets
\* shorter and keeps every id, and so does the persisted store at every step.
C6_NoRecordRemoved ==
  [][ /\ (mounted /\ mounted')
         => (Ids(crqs) \subseteq Ids(crqs') /\ Len(crqs') >= Len(crqs))
      /\ Ids(storage.items) \subseteq Ids(storage'.items)
      /\ Len(storage'.items) >= Len(storage.items)
    ]_vars

\* the first of two stored records has just been edited and saved
C6_Witness ==
  /\ Len(crqs) = 2
  /\ lastOp.op = "handleSave"
  /\ lastOp.id = crqs[1].id
  /\ Len(storage.items) = 2

\* C7: when the storage write fails during a create, an edit or a status
\* change, the handler still runs to completion in both variants: the form
\* closes and the saved record is shown, the confirmed prompt closes and is
\* cleared.
C7_WriteFailureCaught ==
  /\ (lastOp.op = "handleSave" /\ lastOp.write = "failed")
       => (~isFormOpen /\ editingCrq = Null /\ isCopyOpen /\ crqToCopy # Null)
  /\ (lastOp.op = "handleConfirmReview" /\ lastOp.write = "failed")
       => ( /\ ~isReviewerModalOpen
            /\ reviewerName = ""
            /\ selectedCrqForReview = Null
            /\ statusToSetForReview = NullStatus )

\* C8: after every mutation whose storage write succeeded, the store key holds
\* the serialization of the whole current list.
C8_PersistedIsWholeList ==
  (lastOp.op \in MutationOps /\ lastOp.write = "ok")
    => storage = Json(JSONstringify(crqs))

\* a status change on the second of two records was written after an earlier
\* write had failed
C8_Witness ==
  /\ lastOp.op = "handleStatusChange"
  /\ lastOp.write = "ok"
  /\ writeFailed
  /\ Len(crqs) = 2
  /\ lastOp.id = crqs[2].id

\* C9: after a record is saved, loading the store from storage yields a list
\* holding a record equal to the saved one in every field, the implementation
\* date being equal once turned back into a date value.
C9_RoundTrip ==
  (lastOp.op = "handleSave" /\ lastOp.write = "ok")
    => \E i \in DOMAIN LoadedCrqs(variant, storage) :
         NormalizedCrq(LoadedCrqs(variant, storage)[i]) = NormalizedCrq(crqToCopy)

\* a record with an implementation date was saved: storage holds the date as a
\* string, not as the Date the saved record holds
C9_Witness ==
  /\ lastOp.op = "handleSave"
  /\ lastOp.write = "ok"
  /\ crqToCopy # Null
  /\ crqToCopy.implementationStartDate = DateOf(1)
  /\ \E i \in DOMAIN storage.items :
       /\ storage.items[i].id = crqToCopy.id
       /\ storage.items[i].implementationStartDate = IsoOf(1)
       /\ storage.items[i] # crqToCopy

\* C10: after startup with the store key absent or unparseable the list is
\* empty and the page runs; a record created later is appended to the list as
\* its last element and, the write succeeding, the whole list is persisted.
C10_EmptyAfterFailedLoad ==
  /\ []( (lastOp.op = "mount" /\ lastOp.read \in {"absent", "corrupt"})
           => (mounted /\ crqs = <<>>) )
  /\ [][ (lastOp'.op = "handleSave" /\ lastOp'.id = NoId)
           => ( /\ Len(crqs') = Len(crqs) + 1
                /\ SubSeq(crqs', 1, Len(crqs)) = crqs
                /\ lastOp'.write = "ok" => storage' = Json(JSONstringify(crqs')) )
       ]_vars

\* the page has just started on an unparseable store key
C10_Witness ==
  /\ lastOp.op = "mount"
  /\ lastOp.read = "corrupt"
  /\ mounted
  /\ crqs = <<>>

\* C14: creating a record appends it as the last element of the list with
\* status Pending, no reviewer and an id no stored record has; every record
\* stored before is unchanged and keeps its position.
C14_CreateAppends ==
  [][ (lastOp'.op = "handleSave" /\ lastOp'.id = NoId)
        => ( /\ Len(crqs') = Len(crqs) + 1
             /\ \A i \in DOMAIN crqs : crqs'[i] = crqs[i]
             /\ crqs'[Len(crqs')].status = "Pending"
             /\ crqs'[Len(crqs')].reviewer = Undefined
             /\ crqs'[Len(crqs')].id # NoId
             /\ crqs'[Len(crqs')].id \notin Ids(crqs) )
    ]_vars

\* a record has just been created behind a reviewed one
C14_Witness ==
  /\ lastOp.op = "handleSave"
  /\ lastOp.id = NoId
  /\ Len(crqs) = 2
  /\ crqs[1].status = "Approved"
  /\ crqs[1].reviewer = "ann"
  /\ crqs[2].status = "Pending"
  /\ crqs[2].reviewer = Undefined
  /\ crqs[2].id # crqs[1].id

\* C15: a status transition overwrites only the status of the record whose id
\* matches, and its reviewer when a name is supplied: the record's other fields,
\* every other record and the length and order of the list are unchanged.
C15_TransitionFrame ==
  [][ (lastOp'.op \in {"handleStatusChange", "handleConfirmReview"} /\ crqs' # crqs)
        => ( /\ Len(crqs') = Len(crqs)
             /\ \A i \in DOMAIN crqs :
                  IF crqs[i].id = lastOp'.id
                  THEN crqs'[i] =
                         [crqs[i] EXCEPT
                            !.status = lastOp'.status,
                            !.reviewer = IF lastOp'.op = "handleConfirmReview"
                                         THEN lastOp'.read ELSE @]
                  ELSE crqs'[i] = crqs[i] )
    ]_vars

\* the second of two records, which has an implementation date, was given a
\* reviewer by a confirmed prompt while the first stayed Pending
C15_Witness ==
  /\ lastOp.op = "handleConfirmReview"
  /\ Len(crqs) = 2
  /\ lastOp.id = crqs[2].id
  /\ crqs[2].status = lastOp.status
  /\ crqs[2].reviewer = "ann"
  /\ crqs[2].implementationStartDate = DateOf(1)
  /\ crqs[1].status = "Pending"

\* C16: a transition to Implemented or Closed, and a transition to Approved or
\* Declined/Rejected on a record that has a reviewer, is applied in the same
\* step, does not open the reviewer prompt and keeps the record's reviewer.
C16_ImmediateTransition ==
  [][ \A i \in DOMAIN crqs :
        ( /\ lastOp'.op = "handleStatusChange"
          /\ lastOp'.id = crqs[i].id
          /\ \/ lastOp'.status \in {"Implemented", "Closed"}
             \/ lastOp'.status \in ReviewedStatuses(variant) /\ ~Falsy(crqs[i].reviewer) )
        => ( /\ ~isReviewerModalOpen'
             /\ selectedCrqForReview' = selectedCrqForReview
             /\ lastOp'.write # "none"
             /\ crqs'[i].status = lastOp'.status
             /\ crqs'[i].reviewer = crqs[i].reviewer )
    ]_vars

\* an Approved record with a reviewer has just been declined/rejected from the
\* row menu, and keeps its reviewer
C16_Witness ==
  /\ lastOp.op = "handleStatusChange"
  /\ lastOp.status = DeclinedStatus(variant)
  /\ lastOp.prev = "Approved"
  /\ lastOp.write # "none"
  /\ ~isReviewerModalOpen
  /\ \E i \in DOMAIN crqs :
       /\ crqs[i].id = lastOp.id
       /\ crqs[i].status = DeclinedStatus(variant)
       /\ crqs[i].reviewer = "ann"

\* C17: confirming the reviewer prompt with a non-empty name gives the record
\* the target status and the name together, then closes the prompt and clears
\* the pending record, the pending target and the name buffer.
C17_ConfirmAppliesAndCloses ==
  (lastOp.op = "handleConfirmReview" /\ ~Falsy(lastOp.read))
    => ( /\ \E i \in DOMAIN crqs :
              /\ crqs[i].id = lastOp.id
              /\ crqs[i].status = lastOp.status
              /\ crqs[i].reviewer = lastOp.read
         /\ ~isReviewerModalOpen
         /\ selectedCrqForReview = Null
         /\ statusToSetForReview = NullStatus
         /\ reviewerName = "" )

----------------------------------------------------------------------------
(* The form: CrqFormComponent, its three field arrays and its submission *)

\* the field values useForm holds; a list holds the names of its entries
FormOf(summary, brief, purpose, date, apps, vals, backs) ==
  [open |-> TRUE, summary |-> summary, briefDescription |-> brief,
   purpose |-> purpose, implementationStartDate |-> date,
   applications |-> apps, validationChanges |-> vals,
   backoutChanges |-> backs]

\* the default names of appended entries, `Application ${n + 1}` and
\* `Change ${n + 1}`; the number is not told apart
ApplicationName == "Application"
ChangeName == "Change"

\* useForm defaultValues of a new record
defaultValues ==
  FormOf("", "", "", NoDate, <<ApplicationName>>, <<ChangeName>>, <<ChangeName>>)

\* what the user can type into a text field: nothing, or a text
Typed == {"", "x"}

\* the default name of an entry of a list
DefaultName(list) == IF list = "applications" THEN ApplicationName ELSE ChangeName

\* what the user can leave in the name field of an entry: nothing, or the name
TypedNames(list) == {"", DefaultName(list)}

\* mutant: the schema does not ask for at least one entry in a list
formSchemaValid_NoMinEntries(v, values) ==
  /\ values.summary # ""
  /\ values.purpose # ""
  /\ v = "early" => values.briefDescription # ""
  /\ \A i \in DOMAIN values.applications : values.applications[i] # ""
  /\ \A i \in DOMAIN values.validationChanges : values.validationChanges[i] # ""
  /\ \A i \in DOMAIN values.backoutChanges : values.backoutChanges[i] # ""

\* zodResolver(formSchema): the values parse
formSchemaValid(v, values) ==
  /\ values.summary # ""
  /\ values.purpose # ""
  /\ v = "early" => values.briefDescription # ""
  /\ Len(values.applications) >= 1
  /\ \A i \in DOMAIN values.applications : values.applications[i] # ""
  /\ Len(values.validationChanges) >= 1
  /\ \A i \in DOMAIN values.validationChanges : values.validationChanges[i] # ""
  /\ Len(values.backoutChanges) >= 1
  /\ \A i \in DOMAIN values.backoutChanges : values.backoutChanges[i] # ""

\* the part of the parsed values the record model keeps
DataOf(values) ==
  [summary |-> values.summary,
   implementationStartDate |-> values.implementationStartDate]

\* mutant: the remove button is rendered for a single entry too
RemoveAvailable_SingleEntry(list) == Len(list) >= 1

\* the remove button of an entry is rendered: fields.length > 1
RemoveAvailable(list) == Len(list) > 1

\* useFieldArray remove(index)
RemoveAt(list, index) ==
  [i \in 1 .. (Len(list) - 1) |-> IF i < index THEN list[i] ELSE list[i + 1]]

\* a record of the store that the form edits
StoredRecord ==
  [id |-> 1, sysId |-> 2, status |-> "Pending", reviewer |-> Undefined,
   summary |-> "x", implementationStartDate |-> NoDate]

\* initialData of a stored record: its lists as the store key held them; the key
\* may hold records this page did not write, with a list left empty
InitialData ==
  { FormOf("x", "x", "x", NoDate, apps, vals, backs) :
      apps \in {<<>>, <<ApplicationName>>},
      vals \in {<<>>, <<ChangeName>>},
      backs \in {<<>>, <<ChangeName>>} }

\* the form has just been opened, for a new record or for the stored one
FormInit ==
  /\ variant \in Variants
  /\ mounted = TRUE
  /\ \/ /\ crqs = <<>>
        /\ editingCrq = Null
        /\ formValues = defaultValues
     \/ /\ crqs = <<StoredRecord>>
        /\ editingCrq = StoredRecord
        /\ formValues \in InitialData
  /\ storage = Json(JSONstringify(crqs))
  /\ isFormOpen = TRUE
  /\ isCopyOpen = FALSE
  /\ crqToCopy = Null
  /\ isReviewerModalOpen = FALSE
  /\ reviewerName = ""
  /\ selectedCrqForReview = Null
  /\ statusToSetForReview = NullStatus
  /\ writeFailed = FALSE
  /\ atPromptOpen = NoSnapshot
  /\ lastOp = NoOp
  /\ FiltersCleared
  /\ customFields = <<>>
  /\ copySections = NoSections
  /\ RestInit

\* what an edit of the form's fields leaves alone
FormFrame ==
  UNCHANGED <<variant, mounted, crqs, storage, isFormOpen, editingCrq, isCopyOpen,
              crqToCopy, isReviewerModalOpen, reviewerName, selectedCrqForReview,
              statusToSetForReview, writeFailed, atPromptOpen, filterVars,
              templateVars, restVars>>

FormOp(name) == lastOp' = Op(name, NoId, "", "", "", "none")

\* typing into the summary, brief description (early page) or purpose field
TypeField(field, text) ==
  /\ isFormOpen /\ formValues.open
  /\ field = "briefDescription" => variant = "early"
  /\ formValues' = [formValues EXCEPT ![field] = text]
  /\ FormOp("typeField")
  /\ FormFrame

\* typing into the name field of an entry of a list
TypeName(list, index, text) ==
  /\ isFormOpen /\ formValues.open
  /\ index \in DOMAIN formValues[list]
  /\ text \in TypedNames(list)
  /\ formValues' = [formValues EXCEPT ![list][index] = text]
  /\ FormOp("typeField")
  /\ FormFrame

\* Add Application
appendImplApp ==
  /\ isFormOpen /\ formValues.open
  /\ Len(formValues.applications) < MaxEntries
  /\ formValues' = [formValues EXCEPT !.applications = Append(@, ApplicationName)]
  /\ FormOp("appendImplApp")
  /\ FormFrame

\* the remove button of an application
removeImplApp(index) ==
  /\ isFormOpen /\ formValues.open
  /\ RemoveAvailable(formValues.applications)
  /\ index \in DOMAIN formValues.applications
  /\ formValues' = [formValues EXCEPT !.applications = RemoveAt(@, index)]
  /\ FormOp("removeImplApp")
  /\ FormFrame

\* Add Monitored Change of the validation plan
appendValMon ==
  /\ isFormOpen /\ formValues.open
  /\ Len(formValues.validationChanges) < MaxEntries
  /\ formValues' = [formValues EXCEPT !.validationChanges = Append(@, ChangeName)]
  /\ FormOp("appendValMon")
  /\ FormFrame

removeValMon(index) ==
  /\ isFormOpen /\ formValues.open
  /\ RemoveAvailable(formValues.validationChanges)
  /\ index \in DOMAIN formValues.validationChanges
  /\ formValues' = [formValues EXCEPT !.validationChanges = RemoveAt(@, index)]
  /\ FormOp("removeValMon")
  /\ FormFrame

\* Add Monitored Change of the backout plan
appendBackoutMon ==
  /\ isFormOpen /\ formValues.open
  /\ Len(formValues.backoutChanges) < MaxEntries
  /\ formValues' = [formValues EXCEPT !.backoutChanges = Append(@, ChangeName)]
  /\ FormOp("appendBackoutMon")
  /\ FormFrame

removeBackoutMon(index) ==
  /\ isFormOpen /\ formValues.open
  /\ RemoveAvailable(formValues.backoutChanges)
  /\ index \in DOMAIN formValues.backoutChanges
  /\ formValues' = [formValues EXCEPT !.backoutChanges = RemoveAt(@, index)]
  /\ FormOp("removeBackoutMon")
  /\ FormFrame

\* Save CRQ: form.handleSubmit(onSave) runs the resolver and calls onSave, which
\* is handleSave, with the parsed values only when they are valid
handleSubmit(ok) ==
  /\ isFormOpen /\ formValues.open
  /\ IF formSchemaValid(variant, formValues)
     THEN handleSave(DataOf(formValues), ok)
     ELSE /\ FormOp("handleSubmit")
          /\ UNCHANGED formValues
          /\ FormFrame

FormNext ==
  \/ \E field \in {"summary", "briefDescription", "purpose"}, text \in Typed :
       TypeField(field, text)
  \/ \E list \in {"applications", "validationChanges", "backoutChanges"},
        index \in 1 .. MaxEntries, text \in {"", ApplicationName, ChangeName} :
       TypeName(list, index, text)
  \/ appendImplApp
  \/ \E index \in 1 .. MaxEntries : removeImplApp(index)
  \/ appendValMon
  \/ \E index \in 1 .. MaxEntries : removeValMon(index)
  \/ appendBackoutMon
  \/ \E index \in 1 .. MaxEntries : removeBackoutMon(index)
  \/ \E ok \in WriteOutcomes : handleSubmit(ok)
  \/ CloseCopy

SpecForm == FormInit /\ [][FormNext]_vars

----------------------------------------------------------------------------
(* Properties of the form *)

FormLists == {"applications", "validationChanges", "backoutChanges"}

\* the form holds values the claim names as invalid
NamedInvalid(values) ==
  \/ values.summary = ""
  \/ values.purpose = ""
  \/ \E i \in DOMAIN values.applications : values.applications[i] = ""
  \/ \E i \in DOMAIN values.validationChanges : values.validationChanges[i] = ""
  \/ \E i \in DOMAIN values.backoutChanges : values.backoutChanges[i] = ""
  \/ \E list \in FormLists : values[list] = <<>>

\* C12: a step taken while the form holds an empty summary, an empty purpose, an
\* Application or MonitoredChange with an empty name, or an empty required list
\* is never a call of the save handler: the list and the persisted store are
\* unchanged, and a submission leaves the form open with its values.
C12_InvalidSubmitBlocked ==
  [][ (isFormOpen /\ formValues.open /\ NamedInvalid(formValues))
        => ( /\ crqs' = crqs
             /\ storage' = storage
             /\ lastOp'.op # "handleSave"
             /\ lastOp'.op = "handleSubmit"
                  => (isFormOpen' /\ formValues' = formValues /\ ~isCopyOpen') )
    ]_vars

\* a submission was blocked for the one reason that the validation plan has no
\* monitored change
C12_Witness ==
  /\ lastOp.op = "handleSubmit"
  /\ isFormOpen
  /\ formValues.validationChanges = <<>>
  /\ formSchemaValid(variant, [formValues EXCEPT !.validationChanges = <<ChangeName>>])

\* C13: a list of the form that holds an entry holds one after every step of the
\* open form; a removal happens only in a list of more than one entry and takes
\* exactly one entry away; a form opened for a new record holds at least one
\* entry in each of its three lists.
C13_ListsStayNonEmpty ==
  /\ []( (formValues.open /\ editingCrq = Null)
           => \A list \in FormLists : Len(formValues[list]) >= 1 )
  /\ [][ /\ (formValues.open /\ formValues'.open)
            => \A list \in FormLists :
                 Len(formValues[list]) >= 1 => Len(formValues'[list]) >= 1
         /\ lastOp'.op = "removeImplApp"
            => ( /\ Len(formValues.applications) > 1
                 /\ Len(formValues'.applications) = Len(formValues.applications) - 1 )
         /\ lastOp'.op = "removeValMon"
            => ( /\ Len(formValues.validationChanges) > 1
                 /\ Len(formValues'.validationChanges)
                      = Len(formValues.validationChanges) - 1 )
         /\ lastOp'.op = "removeBackoutMon"
            => ( /\ Len(formValues.backoutChanges) > 1
                 /\ Len(formValues'.backoutChanges) = Len(formValues.backoutChanges) - 1 )
       ]_vars

\* an appended monitored change of the backout plan was removed again and one
\* entry remains, so that its remove button is gone
C13_Witness ==
  /\ lastOp.op = "removeBackoutMon"
  /\ formValues.open
  /\ Len(formValues.backoutChanges) = 1
  /\ ~RemoveAvailable(formValues.backoutChanges)

----------------------------------------------------------------------------
(* Properties of the filter bar *)

\* two characters that differ at most in case
SameLetter(c, d) == c = d \/ {c, d} = {"a", "A"} \/ {c, d} = {"b", "B"}

\* text contains search, case ignored
ContainsIgnoringCase(text, search) ==
  \E k \in 0 .. (Len(text) - Len(search)) :
    \A j \in 1 .. Len(search) : SameLetter(text[k + j], search[j])

\* an optional text is present and contains search, case ignored
TextMatches(field, search) ==
  field.tag = "string" /\ ContainsIgnoringCase(field.chars, search)

\* the record satisfies every active filter
SatisfiesActiveFilters(crq) ==
  /\ crqNumberFilter # <<>> => TextMatches(crq.crqNumber, crqNumberFilter)
  /\ summaryFilter # <<>> => TextMatches(crq.summary, summaryFilter)
  /\ reviewerFilter # <<>> => TextMatches(crq.reviewer, reviewerFilter)
  /\ statusFilter # "All" => crq.status = statusFilter
  /\ riskFilter # "All" => crq.risk = riskFilter
  /\ dateFilter # NoDate
       => /\ crq.implementationStartDate # NoDate
          /\ crq.implementationStartDate.t \div InstantsPerDay
               = dateFilter.t \div InstantsPerDay

\* C11: the visible list is the subsequence of the store, in insertion order,
\* made of exactly the records that satisfy every active filter (text contained
\* with case ignored for CRQ number, summary and reviewer; equal status and
\* risk; same calendar day for the implementation date); with no filter active,
\* and so after Clear Filters, it is the whole store.
C11_VisibleIsFilteredStore ==
  /\ filteredCrqs(variant, crqs) = SelectSeq(crqs, SatisfiesActiveFilters)
  /\ FiltersCleared => filteredCrqs(variant, crqs) = crqs
  /\ lastOp.op = "handleClearFilters"
       => (FiltersCleared /\ filteredCrqs(variant, crqs) = crqs)

\* of two records, only the second passes an upper-case CRQ number filter
\* together with a status filter and a date filter
C11_Witness ==
  /\ Len(crqs) = 2
  /\ crqNumberFilter = <<"A">>
  /\ statusFilter = "Approved"
  /\ dateFilter = DateOf(1)
  /\ crqs[1].crqNumber = Str(<<"a">>)
  /\ crqs[2].crqNumber = Str(<<"A", "b">>)
  /\ filteredCrqs(variant, crqs) = <<crqs[2]>>

----------------------------------------------------------------------------
(* The template generator: generateCopySections, and the copy dialog that
   renders its result for the record just saved.  A section body is the
   sequence of its lines; indentation and blank lines are left out. *)

\* custom fields an admin defines in the GroupsDialog
MaxFields == 2

CUSTOM_FIELD_GROUPS ==
  {"Description", "Impact Analysis & Communication", "Risk Assessment",
   "Implementation Plan", "Validation Plan", "Backout Plan"}

\* the titles generateCopySections uses
SectionTitles ==
  {"Summary", "Description", "Impact Analysis & Communication", "Risk Assessment",
   "Implementation plan", "Validation plan", "Backout plan"}

\* one line of a section, `${label}: ${value}`; plain text has no label
Line(label, value) == [label |-> label, value |-> value]

\* String.prototype.trim: a text of the model is blank or has no surrounding whitespace
trim(text) == IF text \in {"", " "} THEN "" ELSE text

\* body.trim() is the empty string
TrimsToEmpty(body) ==
  \A i \in DOMAIN body : body[i].label = "" /\ trim(body[i].value) = ""

\* value || 'N/A'
OrNA(value) == IF Falsy(value) THEN "N/A" ELSE value

\* format(new Date(date), "PPP"): the calendar day written out
formatPPP(d) ==
  CASE formatDay(d) = 0 -> "day 0"
    [] formatDay(d) = 1 -> "day 1"
    [] OTHER -> "a later day"

YesNo(flag) == IF flag THEN "Yes" ELSE "No"
YesAttached(flag) == IF flag THEN "Yes - Attached on ServiceNow" ELSE "No"

\* customData?.[id]
CustomValue(customData, id) ==
  IF id \in DOMAIN customData THEN customData[id] ELSE Undefined

\* getCustomFieldsText(group): the fields of the group that have a truthy value
\* on the record, one line each
getCustomFieldsText(fields, customData, group) ==
  LET HasValue(f) == f.group = group /\ ~Falsy(CustomValue(customData, f.id))
      shown == SelectSeq(fields, HasValue)
  IN [i \in DOMAIN shown |->
        Line(shown[i].label, OrNA(CustomValue(customData, shown[i].id)))]

\* mutant: the version is written whether or not the flag is set
VersionLines_Always(label, flag, version, what) ==
  <<Line(label, YesNo(flag)), Line(label \o " " \o what, OrNA(version))>>

\* `Code: ${flag ? `Yes - ${what}: ${version || 'N/A'}` : 'No'}`: the version is
\* written only for a flag that is set
VersionLines(label, flag, version, what) ==
  IF flag
  THEN <<Line(label, "Yes"), Line(label \o " " \o what, OrNA(version))>>
  ELSE <<Line(label, "No")>>

ChangesLines(changes, what) ==
  VersionLines("Code", changes.code, changes.codeVersion, what)
    \o VersionLines("CCM", changes.ccm, changes.ccmVersion, what)
    \o VersionLines("DB", changes.db, changes.dbVersion, what)
    \o VersionLines("Akeyless", changes.akeyless, changes.akeylessVersion, what)

\* one application of implementationAppsText
ApplicationLines(app) ==
  <<Line("Application", app.name)>> \o ChangesLines(app.changes, "Release Version")

\* one change of validationChangesText / backoutChangesText
MonitoredLines(change) ==
  <<Line("Change", change.name),
    Line("MMS", OrNA(change.mms)),
    Line("Splunk/Openobserve", OrNA(change.splunk))>>

\* Array.prototype.join of the texts of the entries
RECURSIVE JoinLines(_)
JoinLines(texts) ==
  IF texts = <<>> THEN <<>> ELSE Head(texts) \o JoinLines(Tail(texts))

testResultsLines(testResults) ==
  <<Line("Functional", YesAttached(testResults.functional)),
    Line("Regression", YesAttached(testResults.regression)),
    Line("Performance", YesAttached(testResults.performance))>>

impactAnalysisLines(impactAnalysis) ==
  <<Line("Burst Area - Overall", OrNA(impactAnalysis.burstAreaOverall)),
    Line("Burst Area - Tender", OrNA(impactAnalysis.burstAreaTender)),
    Line("Possible impact areas", OrNA(impactAnalysis.possibleImpactAreas)),
    Line("Business/User Impact", OrNA(impactAnalysis.businessUserImpact)),
    Line("Teams impacted by this change", OrNA(impactAnalysis.impactedTeams)),
    Line("Instructions to upstream/downstream sent out",
         OrNA(impactAnalysis.instructionsSent)),
    Line("Teams to be notified", OrNA(impactAnalysis.teamsToNotify))>>

riskLines(riskAssessment) ==
  <<Line("Risk", OrNA(riskAssessment.risk)),
    Line("Mitigation Plan", OrNA(riskAssessment.mitigationPlan))>>

\* the part of the backout plan both pages write
backoutLines(backoutPlan) ==
  <<Line("Is Backout plan tested?", YesNo(backoutPlan.isTested)),
    Line("Changes to Revert", "")>>
    \o ChangesLines(backoutPlan.changes, "Previous Release Version")
    \o <<Line("What to monitor during and after backout", "")>>
    \o JoinLines([i \in DOMAIN backoutPlan.monitoredChanges |->
                    MonitoredLines(backoutPlan.monitoredChanges[i])])

\* the part of the validation plan both pages write
validationLines(validationPlan) ==
  <<Line("Validation Time duration", OrNA(validationPlan.duration)),
    Line("What to monitor during and post deployment", "")>>
    \o JoinLines([i \in DOMAIN validationPlan.monitoredChanges |->
                    MonitoredLines(validationPlan.monitoredChanges[i])])
    \o <<Line("When to Rollback", OrNA(validationPlan.whenToRollback)),
         Line("", "Post deployment attach the validation screenshots and close the CRQ.")>>

implementationAppsLines(implementationPlan) ==
  JoinLines([i \in DOMAIN implementationPlan.applications |->
               ApplicationLines(implementationPlan.applications[i])])

\* a section that is left out when its text trims to empty
OptionalSection(title, body) ==
  IF TrimsToEmpty(body) THEN NoSections ELSE title :> body

\* generateCopySections of the early page
generateCopySectionsEarly(crq) ==
  LET descriptionText ==
        <<Line("Brief Description of the change", crq.briefDescription),
          Line("Release notes confluence page", "Attached on ServiceNow"),
          Line("Purpose of the change", crq.purpose),
          Line("Test results", "")>>
          \o testResultsLines(crq.testResults)
          \o <<Line("Impact Analysis & Communication", "")>>
          \o impactAnalysisLines(crq.impactAnalysis)
          \o <<Line("Risk Assessment", "")>>
          \o riskLines(crq.riskAssessment)
  IN ("Summary" :> <<Line("", crq.summary)>>)
     @@ ("Description" :> descriptionText)
     @@ ("Implementation plan" :>
           <<Line("Implementation Start Date",
                  IF crq.implementationStartDate.tag = "undefined" THEN "N/A"
                  ELSE formatPPP(NewDate(crq.implementationStartDate))),
             Line("Implementation Time duration", OrNA(crq.implementationPlan.duration))>>
             \o implementationAppsLines(crq.implementationPlan)
             \o <<Line("Playbook", "Attached on ServiceNow")>>)
     @@ ("Validation plan" :> validationLines(crq.validationPlan))
     @@ ("Backout plan" :> backoutLines(crq.backoutPlan))

\* generateCopySections of the extended page
generateCopySectionsExtended(crq, fields) ==
  LET Custom(group) == getCustomFieldsText(fields, crq.customData, group)
      descriptionText ==
        <<Line("Release notes confluence page", "Attached on ServiceNow"),
          Line("Link to Deployment Differences", OrNA(crq.deploymentDiffLink)),
          Line("Purpose of the change", crq.purpose),
          Line("Comments", OrNA(crq.comments)),
          Line("Test results", "")>>
          \o testResultsLines(crq.testResults)
          \o Custom("Description")
      impactCommunicationText ==
        impactAnalysisLines(crq.impactAnalysis) \o Custom("Impact Analysis & Communication")
      riskAssessmentText ==
        riskLines(crq.riskAssessment) \o Custom("Risk Assessment")
  IN ("Summary" :> <<Line("", crq.summary)>>)
     @@ ("Description" :> descriptionText)
     @@ OptionalSection("Impact Analysis & Communication", impactCommunicationText)
     @@ OptionalSection("Risk Assessment", riskAssessmentText)
     @@ ("Implementation plan" :>
           implementationAppsLines(crq.implementationPlan)
             \o <<Line("Playbook", "Attached on ServiceNow")>>
             \o Custom("Implementation Plan"))
     @@ ("Validation plan" :>
           validationLines(crq.validationPlan) \o Custom("Validation Plan"))
     @@ ("Backout plan" :>
           backoutLines(crq.backoutPlan) \o Custom("Backout Plan"))

generateCopySections(v, crq, fields) ==
  IF crq = Null THEN NoSections
  ELSE IF v = "extended" THEN generateCopySectionsExtended(crq, fields)
  ELSE generateCopySectionsEarly(crq)

\* the label of the i-th custom field
CustomLabel(i) ==
  CASE i = 1 -> "Owner"
    [] i = 2 -> "Ticket"
    [] OTHER -> "Note"

\* the custom field lists of up to MaxFields fields, each field with its own id
\* and label and any of the six groups
CustomFieldLists ==
  UNION { { [i \in 1 .. n |-> [id |-> i, label |-> CustomLabel(i), group |-> g[i]]] :
              g \in [1 .. n -> CUSTOM_FIELD_GROUPS] } : n \in 0 .. MaxFields }

\* the customData a form showing these fields can produce: an input left
\* untouched gives no key, a cleared input "", a filled one its text
CustomDataOf(fields) ==
  UNION { [ids -> {"", "v"}] : ids \in SUBSET DOMAIN fields }

\* a saved record with the fields generateCopySections reads; briefDescription
\* belongs to the early page, deploymentDiffLink, comments and customData to the
\* extended one
TemplateCrq(summary, a, b, date, customData) ==
  LET TemplateChanges ==
        [code |-> TRUE, codeVersion |-> "v", ccm |-> TRUE, ccmVersion |-> Undefined,
         db |-> FALSE, dbVersion |-> Undefined,
         akeyless |-> FALSE, akeylessVersion |-> "v"]
      TemplateChange == [name |-> "Change 1", mms |-> "v", splunk |-> Undefined]
  IN
  [id |-> 1, sysId |-> 2, status |-> "Pending", reviewer |-> Undefined,
   summary |-> summary,
   briefDescription |-> "x",
   purpose |-> "x",
   deploymentDiffLink |-> a,
   comments |-> b,
   testResults |-> [functional |-> TRUE, regression |-> FALSE, performance |-> FALSE],
   impactAnalysis |->
     [burstAreaOverall |-> a, burstAreaTender |-> b, possibleImpactAreas |-> a,
      businessUserImpact |-> b, impactedTeams |-> a, instructionsSent |-> b,
      teamsToNotify |-> a],
   riskAssessment |-> [risk |-> IF Falsy(b) THEN Undefined ELSE "Low",
                       mitigationPlan |-> a],
   implementationStartDate |-> date,
   implementationPlan |->
     [duration |-> b,
      applications |-> <<[name |-> "Application 1", changes |-> TemplateChanges]>>],
   validationPlan |->
     [duration |-> a, monitoredChanges |-> <<TemplateChange>>, whenToRollback |-> b],
   backoutPlan |->
     [isTested |-> FALSE, changes |-> TemplateChanges,
      monitoredChanges |-> <<TemplateChange>>],
   customData |-> customData]

\* the records handleSave can have just saved: a summary of one space passes
\* z.string().min(1); an optional text was never entered, entered and cleared,
\* or entered
TemplateCrqs(fields) ==
  { TemplateCrq(summary, a, b, date, customData) :
      summary \in {"x", " "}, a \in {Undefined, "", "v"}, b \in {Undefined, "v"},
      date \in {NoDate, DateOf(1)}, customData \in CustomDataOf(fields) }

\* handleSave has just saved a record and opened the copy dialog on it
TemplateInit ==
  /\ variant \in Variants
  /\ mounted = TRUE
  /\ customFields \in IF variant = "extended" THEN CustomFieldLists ELSE {<<>>}
  /\ crqToCopy \in TemplateCrqs(customFields)
  /\ crqs = <<crqToCopy>>
  /\ storage = Json(JSONstringify(crqs))
  /\ isFormOpen = FALSE
  /\ editingCrq = Null
  /\ isCopyOpen = TRUE
  /\ isReviewerModalOpen = FALSE
  /\ reviewerName = ""
  /\ selectedCrqForReview = Null
  /\ statusToSetForReview = NullStatus
  /\ writeFailed = FALSE
  /\ atPromptOpen = NoSnapshot
  /\ lastOp = Op("handleSave", NoId, "Pending", "", "", "ok")
  /\ FiltersCleared
  /\ formValues = NoForm
  /\ copySections = NoSections
  /\ RestInit

\* the render of the copy dialog: memoizedCopySections (extended page), or the
\* call in the dialog's body (early page)
RenderCopySections ==
  /\ mounted /\ isCopyOpen
  /\ copySections' = generateCopySections(variant, crqToCopy, customFields)
  /\ lastOp' = Op("generateCopySections", crqToCopy.id, "", "", "", "none")
  /\ UNCHANGED <<variant, mounted, crqs, storage, isFormOpen, editingCrq, isCopyOpen,
                 crqToCopy, isReviewerModalOpen, reviewerName, selectedCrqForReview,
                 statusToSetForReview, writeFailed, atPromptOpen>>
  /\ UNCHANGED <<filterVars, formVars, customFields, restVars>>

TemplateNext ==
  \/ RenderCopySections
  \/ CloseCopy

SpecTemplate == TemplateInit /\ [][TemplateNext]_vars

----------------------------------------------------------------------------
(* Properties of the template generator *)

\* the copy dialog shows the sections generated for crqToCopy
Rendered == isCopyOpen /\ lastOp.op = "generateCopySections"

\* the lines of all generated sections
AllLines(sections) ==
  UNION { {sections[t][i] : i \in DOMAIN sections[t]} : t \in DOMAIN sections }

\* an optional field shows its value when present and "N/A" when absent
ShownValue(value) == IF value \in {Undefined, ""} THEN "N/A" ELSE value

\* C18: for every record, the mapping generate returns contains no section
\* whose body is empty after trimming, and contains every other one of the
\* seven sections.
C18_NoBlankSection ==
  Rendered
    => ( /\ \A t \in DOMAIN copySections : ~TrimsToEmpty(copySections[t])
         /\ \A t \in SectionTitles :
              \/ t \in DOMAIN copySections
              \/ t = "Summary" /\ trim(crqToCopy.summary) = "" )

\* C19: in both variants the generated sections hold, for every optional field
\* of the impact analysis, the risk assessment, the implementation plan (start
\* date, duration) and the validation plan (duration, rollback criteria), a line
\* with the field's value when present and "N/A" when absent.
C19_OptionalFieldLines ==
  Rendered
    => LET crq == crqToCopy
           lines == AllLines(copySections)
       IN /\ Line("Burst Area - Overall", ShownValue(crq.impactAnalysis.burstAreaOverall))
               \in lines
          /\ Line("Burst Area - Tender", ShownValue(crq.impactAnalysis.burstAreaTender))
               \in lines
          /\ Line("Possible impact areas",
                  ShownValue(crq.impactAnalysis.possibleImpactAreas)) \in lines
          /\ Line("Business/User Impact",
                  ShownValue(crq.impactAnalysis.businessUserImpact)) \in lines
          /\ Line("Teams impacted by this change",
                  ShownValue(crq.impactAnalysis.impactedTeams)) \in lines
          /\ Line("Instructions to upstream/downstream sent out",
                  ShownValue(crq.impactAnalysis.instructionsSent)) \in lines
          /\ Line("Teams to be notified", ShownValue(crq.impactAnalysis.teamsToNotify))
               \in lines
          /\ Line("Risk", ShownValue(crq.riskAssessment.risk)) \in lines
          /\ Line("Mitigation Plan", ShownValue(crq.riskAssessment.mitigationPlan))
               \in lines
          /\ Line("Validation Time duration", ShownValue(crq.validationPlan.duration))
               \in lines
          /\ Line("When to Rollback", ShownValue(crq.validationPlan.whenToRollback))
               \in lines
          /\ Line("Implementation Time duration",
                  ShownValue(crq.implementationPlan.duration)) \in lines
          /\ \E i \in DOMAIN copySections["Implementation plan"] :
               /\ copySections["Implementation plan"][i].label = "Implementation Start Date"
               /\ (crq.implementationStartDate = NoDate)
                    = (copySections["Implementation plan"][i].value = "N/A")

\* the section of the result that belongs to a custom field group
GroupSection(group) ==
  CASE group = "Implementation Plan" -> "Implementation plan"
    [] group = "Validation Plan" -> "Validation plan"
    [] group = "Backout Plan" -> "Backout plan"
    [] OTHER -> group

\* the labels of the lines of a section
Labels(body) == {body[i].label : i \in DOMAIN body}

\* C20: in the extended variant every custom field definition contributes a
\* line keyed by its label to the section of its group, whichever of the six
\* groups that is, and to no other section.
C20_CustomFieldLines ==
  (Rendered /\ variant = "extended")
    => \A k \in DOMAIN customFields :
         \A t \in DOMAIN copySections :
           (customFields[k].label \in Labels(copySections[t]))
             = (t = GroupSection(customFields[k].group))

\* the version strings a record can hold next to a flag
VersionTexts == {Undefined, "", "v", "w"}

\* the change-set with the version string of every unset flag replaced
WithUnsetVersions(changes, text) ==
  [changes EXCEPT !.codeVersion = IF changes.code THEN @ ELSE text,
                  !.ccmVersion = IF changes.ccm THEN @ ELSE text,
                  !.dbVersion = IF changes.db THEN @ ELSE text,
                  !.akeylessVersion = IF changes.akeyless THEN @ ELSE text]

\* the record with the version strings of the unset flags of every application
\* and of the backout change-set replaced
UnsetVersionsReplaced(crq, text) ==
  [crq EXCEPT
     !.implementationPlan.applications =
        [i \in DOMAIN @ |-> [@[i] EXCEPT !.changes = WithUnsetVersions(@, text)]],
     !.backoutPlan.changes = WithUnsetVersions(@, text)]

\* C21: the generated sections do not depend on a version string whose flag is
\* unset: a record that differs from the rendered one only in the version
\* strings of unset flags, of an application or of the backout change-set,
\* generates the same sections.
C21_UnsetVersionIgnored ==
  Rendered
    => \A text \in VersionTexts :
         generateCopySections(variant, UnsetVersionsReplaced(crqToCopy, text), customFields)
           = copySections

\* the rendered record holds a version string next to an unset flag, and a set
\* flag whose version is written
C21_Witness ==
  /\ Rendered
  /\ ~crqToCopy.backoutPlan.changes.akeyless
  /\ crqToCopy.backoutPlan.changes.akeylessVersion = "v"
  /\ UnsetVersionsReplaced(crqToCopy, "w") # crqToCopy
  /\ Line("Akeyless", "No") \in AllLines(copySections)
  /\ Line("Code Release Version", "v") \in AllLines(copySections)

----------------------------------------------------------------------------
(* The export of the extended page: ExportDialog and handleExport, over the
   stores of the filter bar with the status and summary filters set or not.
   exportedRows is the sheet written by the step just taken. *)

\* crq.crqNumber || 'N/A' for an optional text
TextOrNA(field) ==
  IF field.tag = "undefined" \/ field.chars = <<>> THEN Str(<<"N", "/", "A">>) ELSE field

\* the Implementation Date cell: format(new Date(date), "yyyy-MM-dd") or 'N/A'
DateCell(date) ==
  IF date.tag = "undefined" THEN [na |-> TRUE, day |-> 0]
  ELSE [na |-> FALSE, day |-> formatDay(NewDate(date))]

\* const row = {}: a row without cells
NoCells == [label \in {} |-> ""]

\* the row handleExport builds for one record
ExportRow(crq, columnsToExport) ==
  LET Cell(id, label, value) ==
        IF id \in columnsToExport THEN label :> value ELSE NoCells
  IN Cell("crqNumber", "CRQ Number", TextOrNA(crq.crqNumber))
     @@ Cell("summary", "Summary", crq.summary)
     @@ Cell("risk", "Risk", OrNA(crq.risk))
     @@ Cell("status", "Status", crq.status)
     @@ Cell("implementationDate", "Implementation Date",
             DateCell(crq.implementationStartDate))
     @@ Cell("reviewer", "Reviewer", TextOrNA(crq.reviewer))

\* mutant: the export takes every stored record, filtered or not
ExportData_WholeStore(v, list, columnsToExport) ==
  [i \in DOMAIN list |-> ExportRow(list[i], columnsToExport)]

\* const data = filteredCrqs.map(...)
ExportData(v, list, columnsToExport) ==
  LET visible == filteredCrqs(v, list)
  IN [i \in DOMAIN visible |-> ExportRow(visible[i], columnsToExport)]

ExportInit ==
  /\ variant = "extended"
  /\ mounted = TRUE
  /\ crqs \in FilterStores(variant)
  /\ storage = Json(JSONstringify(crqs))
  /\ isFormOpen = FALSE
  /\ editingCrq = Null
  /\ isCopyOpen = FALSE
  /\ crqToCopy = Null
  /\ isReviewerModalOpen = FALSE
  /\ reviewerName = ""
  /\ selectedCrqForReview = Null
  /\ statusToSetForReview = NullStatus
  /\ writeFailed = FALSE
  /\ atPromptOpen = NoSnapshot
  /\ lastOp = NoOp
  /\ crqNumberFilter = <<>>
  /\ summaryFilter \in {<<>>, <<"a">>}
  /\ statusFilter \in {"All", "Approved"}
  /\ riskFilter = "All"
  /\ dateFilter = NoDate
  /\ reviewerFilter = <<>>
  /\ formValues = NoForm
  /\ customFields = <<>>
  /\ copySections = NoSections
  /\ RestInit

\* what the export dialog leaves alone
ExportFrame ==
  UNCHANGED <<variant, mounted, crqs, storage, isFormOpen, editingCrq, isCopyOpen,
              crqToCopy, isReviewerModalOpen, reviewerName, selectedCrqForReview,
              statusToSetForReview, writeFailed, atPromptOpen, filterVars, formVars,
              templateVars, adminVars, otherTab>>

\* the "Export to Excel" button
handleOpenExport ==
  /\ mounted /\ NoModal /\ NoConfigModal
  /\ variant = "extended"
  /\ isExportModalOpen' = TRUE
  /\ exportedRows' = NoExport
  /\ lastOp' = Op("openExport", NoId, "", "", "", "none")
  /\ UNCHANGED selectedColumns
  /\ ExportFrame

\* a column checkbox of the dialog: handleToggle(columnId, checked)
handleToggle(columnId) ==
  /\ isExportModalOpen
  /\ selectedColumns' = IF columnId \in selectedColumns
                        THEN selectedColumns \ {columnId}
                        ELSE selectedColumns \cup {columnId}
  /\ exportedRows' = NoExport
  /\ lastOp' = Op("handleToggle", NoId, "", "", "", "none")
  /\ UNCHANGED isExportModalOpen
  /\ ExportFrame

\* the Export button: handleExportClick, handleExport(selectedColumns)
handleExport ==
  /\ isExportModalOpen
  /\ exportedRows' = ExportData(variant, crqs, selectedColumns)
  /\ isExportModalOpen' = FALSE
  /\ lastOp' = Op("handleExport", NoId, "", "", "", "none")
  /\ UNCHANGED selectedColumns
  /\ ExportFrame

\* Cancel, or the dialog's own close
CancelExport ==
  /\ isExportModalOpen
  /\ isExportModalOpen' = FALSE
  /\ exportedRows' = NoExport
  /\ lastOp' = Op("cancelExport", NoId, "", "", "", "none")
  /\ UNCHANGED selectedColumns
  /\ ExportFrame

ExportNext ==
  \/ handleOpenExport
  \/ \E columnId \in DASHBOARD_COLUMNS : handleToggle(columnId)
  \/ handleExport
  \/ CancelExport

SpecExport == ExportInit /\ [][ExportNext]_vars

----------------------------------------------------------------------------
(* Properties of the export *)

\* the header of a column in the sheet
ColumnLabel(columnId) ==
  CASE columnId = "crqNumber" -> "CRQ Number"
    [] columnId = "summary" -> "Summary"
    [] columnId = "risk" -> "Risk"
    [] columnId = "status" -> "Status"
    [] columnId = "implementationDate" -> "Implementation Date"
    [] columnId = "reviewer" -> "Reviewer"

\* C22: an export maps the visible (filtered) list to one row per visible
\* record, in the order of the visible list; each row has a cell for every
\* selected column and none for an unselected one; the list, the persisted
\* store and the filters are unchanged.
C22_ExportVisibleRows ==
  [][ lastOp'.op = "handleExport"
        => LET visible == SelectSeq(crqs, SatisfiesActiveFilters)
           IN /\ Len(exportedRows') = Len(visible)
              /\ \A i \in DOMAIN visible :
                   /\ DOMAIN exportedRows'[i]
                        = {ColumnLabel(c) : c \in selectedColumns}
                   /\ "summary" \in selectedColumns
                        => exportedRows'[i]["Summary"] = visible[i].summary
                   /\ "status" \in selectedColumns
                        => exportedRows'[i]["Status"] = visible[i].status
              /\ crqs' = crqs
              /\ storage' = storage
              /\ UNCHANGED filterVars
    ]_vars

\* two of the six columns were exported of a store of two records of which the
\* filters show one, the second
C22_Witness ==
  /\ lastOp.op = "handleExport"
  /\ selectedColumns = {"summary", "status"}
  /\ Len(crqs) = 2
  /\ Len(exportedRows) = 1
  /\ exportedRows[1] = ("Summary" :> crqs[2].summary) @@ ("Status" :> crqs[2].status)
  /\ crqs[1].status # crqs[2].status

----------------------------------------------------------------------------
(* The admin password prompt of the extended page and the two configuration
   dialogs it unlocks.  The list of enabled optional fields that the
   ConfigurableFieldsDialog edits is not part of the state. *)

ADMIN_PASSWORD == "admin"

\* what can be typed into the password input
Passwords == {"", "admin", "guess"}

\* mutant: any non-empty password unlocks
PasswordAccepted_NonEmpty(input) == input # ""

\* passwordInput === ADMIN_PASSWORD
PasswordAccepted(input) == input = ADMIN_PASSWORD

AdminInit ==
  /\ variant = "extended"
  /\ mounted = TRUE
  /\ crqs = <<>>
  /\ storage = Json(JSONstringify(crqs))
  /\ isFormOpen = FALSE
  /\ editingCrq = Null
  /\ isCopyOpen = FALSE
  /\ crqToCopy = Null
  /\ isReviewerModalOpen = FALSE
  /\ reviewerName = ""
  /\ selectedCrqForReview = Null
  /\ statusToSetForReview = NullStatus
  /\ writeFailed = FALSE
  /\ atPromptOpen = NoSnapshot
  /\ lastOp = NoOp
  /\ FiltersCleared
  /\ formValues = NoForm
  /\ customFields = <<>>
  /\ copySections = NoSections
  /\ RestInit

\* what the password prompt and the configuration dialogs leave alone
AdminFrame ==
  UNCHANGED <<variant, mounted, crqs, storage, isFormOpen, editingCrq, isCopyOpen,
              crqToCopy, isReviewerModalOpen, reviewerName, selectedCrqForReview,
              statusToSetForReview, writeFailed, atPromptOpen, filterVars, formVars,
              copySections, exportVars, otherTab>>

AdminOp(name) == lastOp' = Op(name, NoId, "", "", "", "none")

\* the "Configurable Fields" button
handleOpenConfigurableFields ==
  /\ mounted /\ NoModal /\ NoConfigModal
  /\ configTarget' = "fields"
  /\ isPasswordModalOpen' = TRUE
  /\ AdminOp("handleOpenConfigurableFields")
  /\ UNCHANGED <<passwordInput, isConfigModalOpen, isGroupsModalOpen, wrongSubmits,
                 customFields>>
  /\ AdminFrame

\* the "Groups" button
handleOpenGroups ==
  /\ mounted /\ NoModal /\ NoConfigModal
  /\ configTarget' = "groups"
  /\ isPasswordModalOpen' = TRUE
  /\ AdminOp("handleOpenGroups")
  /\ UNCHANGED <<passwordInput, isConfigModalOpen, isGroupsModalOpen, wrongSubmits,
                 customFields>>
  /\ AdminFrame

\* typing into the password input
setPasswordInput(text) ==
  /\ isPasswordModalOpen
  /\ passwordInput' = text
  /\ AdminOp("setPasswordInput")
  /\ UNCHANGED <<isPasswordModalOpen, configTarget, isConfigModalOpen,
                 isGroupsModalOpen, wrongSubmits, customFields>>
  /\ AdminFrame

\* the Unlock button, or Enter in the input
handlePasswordSubmit ==
  /\ isPasswordModalOpen
  /\ IF PasswordAccepted(passwordInput)
     THEN /\ isPasswordModalOpen' = FALSE
          /\ passwordInput' = ""
          /\ isConfigModalOpen' = IF configTarget = "fields" THEN TRUE
                                  ELSE isConfigModalOpen
          /\ isGroupsModalOpen' = IF configTarget = "groups" THEN TRUE
                                  ELSE isGroupsModalOpen
          /\ UNCHANGED wrongSubmits
     ELSE /\ wrongSubmits < MaxWrong
          /\ passwordInput' = ""
          /\ wrongSubmits' = wrongSubmits + 1
          /\ UNCHANGED <<isPasswordModalOpen, isConfigModalOpen, isGroupsModalOpen>>
  /\ AdminOp("handlePasswordSubmit")
  /\ UNCHANGED <<configTarget, customFields>>
  /\ AdminFrame

\* the Cancel button of the prompt
CancelPassword ==
  /\ isPasswordModalOpen
  /\ isPasswordModalOpen' = FALSE
  /\ passwordInput' = ""
  /\ AdminOp("cancelPassword")
  /\ UNCHANGED <<configTarget, isConfigModalOpen, isGroupsModalOpen, wrongSubmits,
                 customFields>>
  /\ AdminFrame

\* the prompt closed by the dialog itself (Escape): onOpenChange(false)
DismissPassword ==
  /\ isPasswordModalOpen
  /\ isPasswordModalOpen' = FALSE
  /\ AdminOp("dismissPassword")
  /\ UNCHANGED <<passwordInput, configTarget, isConfigModalOpen, isGroupsModalOpen,
                 wrongSubmits, customFields>>
  /\ AdminFrame

\* ConfigurableFieldsDialog: onClose
CloseConfig ==
  /\ isConfigModalOpen
  /\ isConfigModalOpen' = FALSE
  /\ AdminOp("closeConfig")
  /\ UNCHANGED <<isPasswordModalOpen, passwordInput, configTarget, isGroupsModalOpen,
                 wrongSubmits, customFields>>
  /\ AdminFrame

\* ConfigurableFieldsDialog: onOpenGroups
OpenGroupsFromConfig ==
  /\ isConfigModalOpen
  /\ isConfigModalOpen' = FALSE
  /\ isGroupsModalOpen' = TRUE
  /\ AdminOp("onOpenGroups")
  /\ UNCHANGED <<isPasswordModalOpen, passwordInput, configTarget, wrongSubmits,
                 customFields>>
  /\ AdminFrame

\* GroupsDialog: handleSave, onSave(localFields) and onClose()
SaveGroups(fields) ==
  /\ isGroupsModalOpen
  /\ customFields' = fields
  /\ isGroupsModalOpen' = FALSE
  /\ AdminOp("saveGroups")
  /\ UNCHANGED <<isPasswordModalOpen, passwordInput, configTarget, isConfigModalOpen,
                 wrongSubmits>>
  /\ AdminFrame

\* GroupsDialog: onClose
CloseGroups ==
  /\ isGroupsModalOpen
  /\ isGroupsModalOpen' = FALSE
  /\ AdminOp("closeGroups")
  /\ UNCHANGED <<isPasswordModalOpen, passwordInput, configTarget, isConfigModalOpen,
                 wrongSubmits, customFields>>
  /\ AdminFrame

AdminNext ==
  \/ handleOpenConfigurableFields
  \/ handleOpenGroups
  \/ \E text \in Passwords : setPasswordInput(text)
  \/ handlePasswordSubmit
  \/ CancelPassword
  \/ DismissPassword
  \/ CloseConfig
  \/ OpenGroupsFromConfig
  \/ \E fields \in CustomFieldLists : SaveGroups(fields)
  \/ CloseGroups

SpecAdmin == AdminInit /\ [][AdminNext]_vars

----------------------------------------------------------------------------
(* Properties of the admin password prompt *)

\* C23: submitting a wrong admin password opens no configuration dialog,
\* clears the password input and leaves the prompt open; however many wrong
\* passwords were submitted before, submitting the correct one closes the prompt
\* and opens exactly the dialog that was requested, fields or groups.
C23_PasswordGate ==
  [][ /\ (lastOp'.op = "handlePasswordSubmit" /\ passwordInput # ADMIN_PASSWORD)
           => ( /\ isPasswordModalOpen'
                /\ passwordInput' = ""
                /\ ~isConfigModalOpen' /\ ~isGroupsModalOpen'
                /\ configTarget' = configTarget )
      /\ (lastOp'.op = "handlePasswordSubmit" /\ passwordInput = ADMIN_PASSWORD)
           => ( /\ ~isPasswordModalOpen'
                /\ configTarget \in {"fields", "groups"}
                /\ isConfigModalOpen' = (configTarget = "fields")
                /\ isGroupsModalOpen' = (configTarget = "groups") )
      /\ lastOp'.op = "handleOpenConfigurableFields" => configTarget' = "fields"
      /\ lastOp'.op = "handleOpenGroups" => configTarget' = "groups"
      /\ (isPasswordModalOpen /\ isPasswordModalOpen') => configTarget' = configTarget
      /\ (isPasswordModalOpen /\ passwordInput = ADMIN_PASSWORD)
           => ENABLED handlePasswordSubmit
    ]_vars

\* after two wrong passwords the correct one has just opened the groups dialog
C23_Witness ==
  /\ lastOp.op = "handlePasswordSubmit"
  /\ wrongSubmits = 2
  /\ configTarget = "groups"
  /\ isGroupsModalOpen
  /\ ~isConfigModalOpen
  /\ ~isPasswordModalOpen

----------------------------------------------------------------------------
(* Two tabs on the same storage key.  Neither page listens to storage events;
   the handlers of the tab in front run as in Spec, and SwitchTab brings the
   other tab to the front.  The tab in front is the one the dashboard
   variables describe. *)

\* the user brings the other tab to the front, no dialog being open in this one
SwitchTab ==
  /\ NoModal
  /\ otherTab' = [mounted |-> mounted, crqs |-> crqs]
  /\ mounted' = otherTab.mounted
  /\ crqs' = otherTab.crqs
  /\ atPromptOpen' = NoSnapshot
  /\ lastOp' = Op("switchTab", NoId, "", "", "", "none")
  /\ UNCHANGED <<variant, storage, isFormOpen, editingCrq, isCopyOpen, crqToCopy,
                 isReviewerModalOpen, reviewerName, selectedCrqForReview,
                 statusToSetForReview, writeFailed>>
  /\ UNCHANGED <<filterVars, formVars, templateVars, exportVars, adminVars>>

TabsNext ==
  \/ Mount
  \/ handleOpenNew
  \/ CancelForm
  \/ \E data \in FormValues, ok \in WriteOutcomes : handleSave(data, ok)
  \/ CloseCopy
  \/ \E i \in DOMAIN crqs, status \in {"Implemented", "Closed"}, ok \in WriteOutcomes :
       handleStatusChange(i, status, ok)
  \/ SwitchTab

SpecTabs == Init /\ [][TabsNext]_vars

----------------------------------------------------------------------------
(* Properties of two tabs *)

\* C24: with two tabs on the same storage key, every write that succeeds
\* replaces the persisted value by the whole list of the tab that writes, so
\* the persisted value is the list of the tab that wrote last; a record the
\* other tab persisted since this tab loaded is not merged in, it is dropped.
C24_LastWriterWins ==
  [][ lastOp'.write = "ok"
        => ( /\ storage' = Json(JSONstringify(crqs'))
             /\ \A k \in DOMAIN storage.items :
                  storage.items[k].id \notin Ids(crqs')
                    => storage.items[k].id \notin Ids(storage'.items) )
    ]_vars

\* no write has failed, both tabs hold a record the other does not hold, and
\* the tab in front has just persisted its list: the other tab's record is lost
C24_Witness ==
  /\ lastOp.op = "handleSave"
  /\ lastOp.write = "ok"
  /\ ~writeFailed
  /\ otherTab.mounted
  /\ storage = Json(JSONstringify(crqs))
  /\ \E k \in DOMAIN otherTab.crqs : otherTab.crqs[k].id \notin Ids(storage.items)
  /\ \E k \in DOMAIN crqs : crqs[k].id \notin Ids(otherTab.crqs)

----------------------------------------------------------------------------
(* Properties of the status lattice, the reviewer and edits *)

\* the handlers that change a status
StatusOps == {"handleStatusChange", "handleConfirmReview"}

\* C25: no level of the status lattice is skipped: a record's status becomes
\* Implemented only from Approved or Declined/Rejected and Closed only from
\* Implemented.
C25_NoLevelSkipped ==
  [][ lastOp'.op \in StatusOps
        => \A i \in DOMAIN crqs :
             /\ (crqs'[i].status = "Implemented" /\ crqs[i].status # "Implemented")
                  => crqs[i].status \in ReviewedStatuses(variant)
             /\ (crqs'[i].status = "Closed" /\ crqs[i].status # "Closed")
                  => crqs[i].status = "Implemented"
    ]_vars

\* C25, as the code has it: levels can be skipped.  A record's status becomes
\* Implemented from Pending, Approved or Declined/Rejected and Closed from any
\* other status, in one step of the row menu that leaves the reviewer as it was;
\* a Closed record never becomes Implemented, and the reviewed statuses are
\* never entered without a reviewer.
C25_LevelsSkippedForward ==
  [][ lastOp'.op \in StatusOps
        => \A i \in DOMAIN crqs :
             /\ (crqs'[i].status = "Implemented" /\ crqs[i].status # "Implemented")
                  => ( /\ crqs[i].status \in {"Pending"} \cup ReviewedStatuses(variant)
                       /\ crqs'[i].reviewer = crqs[i].reviewer )
             /\ (crqs'[i].status = "Closed" /\ crqs[i].status # "Closed")
                  => crqs'[i].reviewer = crqs[i].reviewer
             /\ (crqs'[i].status \in ReviewedStatuses(variant)
                   /\ crqs'[i].status # crqs[i].status)
                  => ~Falsy(crqs'[i].reviewer)
    ]_vars

\* a Pending record that nobody reviewed has just been closed from the row menu
C25_Witness ==
  /\ lastOp.op = "handleStatusChange"
  /\ lastOp.status = "Closed"
  /\ lastOp.prev = "Pending"
  /\ \E i \in DOMAIN crqs :
       /\ crqs[i].id = lastOp.id
       /\ crqs[i].status = "Closed"
       /\ crqs[i].reviewer = Undefined

\* C26: Closed is terminal in both variants: while the page runs, no step
\* changes the status, the reviewer or any other field of a record whose status
\* is Closed, and the record keeps its position.
C26_ClosedIsTerminal ==
  [][ (mounted /\ mounted')
        => \A i \in DOMAIN crqs :
             crqs[i].status = "Closed"
               => (i \in DOMAIN crqs' /\ crqs'[i] = crqs[i])
    ]_vars

\* the first record is Closed and the second has just been given a reviewer by
\* a confirmed prompt
C26_Witness ==
  /\ Len(crqs) = 2
  /\ crqs[1].status = "Closed"
  /\ lastOp.op = "handleConfirmReview"
  /\ lastOp.id = crqs[2].id
  /\ crqs[2].reviewer = "ann"

\* C27: once a record has a reviewer, no status transition changes or removes
\* it: over every step of handleStatusChange or handleConfirmReview a record
\* that had a reviewer has the same reviewer afterwards.
C27_ReviewerKept ==
  [][ lastOp'.op \in StatusOps
        => \A i \in DOMAIN crqs :
             ~Falsy(crqs[i].reviewer) => crqs'[i].reviewer = crqs[i].reviewer
    ]_vars

\* C28: saving an edit replaces the record in place: the store keeps its
\* length, the edited record stays where it was with its id and its sysId,
\* every other record is unchanged, and in the early variant the edited record
\* also keeps its status and its reviewer.
C28_EditInPlace ==
  [][ (lastOp'.op = "handleSave" /\ lastOp'.id # NoId)
        => /\ Len(crqs') = Len(crqs)
           /\ \E i \in DOMAIN crqs : crqs[i].id = lastOp'.id
           /\ \A i \in DOMAIN crqs :
                IF crqs[i].id = lastOp'.id
                THEN /\ crqs'[i].id = crqs[i].id
                     /\ crqs'[i].sysId = crqs[i].sysId
                     /\ variant = "early"
                          => /\ crqs'[i].status = crqs[i].status
                             /\ crqs'[i].reviewer = crqs[i].reviewer
                ELSE crqs'[i] = crqs[i]
    ]_vars

\* the early page has just saved an edit of the first of two records, which
\* is still Approved by its reviewer and carries the submitted summary
C28_Witness ==
  /\ variant = "early"
  /\ lastOp.op = "handleSave"
  /\ Len(crqs) = 2
  /\ lastOp.id = crqs[1].id
  /\ crqs[1].status = "Approved"
  /\ crqs[1].reviewer = "bob"
  /\ crqToCopy = crqs[1]
  /\ crqs[1].summary # crqs[2].summary

\* C29: in the extended variant the hook never writes its initial value over a
\* persisted value it has not read: until the page has mounted nothing but the
\* mount effects touches the store key, and when the key holds a parseable
\* value these load it and the first write stores the loaded value, so the
\* key holds afterwards what it held before.
C29_StartupKeepsPersisted ==
  [][ (variant = "extended" /\ ~mounted)
        => /\ lastOp'.op = "mount"
           /\ storage.kind = "json"
                => /\ crqs' = JSONparse(storage.items)
                   /\ storage' = storage
                   /\ lastOp'.write = "ok" => storage' = Json(JSONstringify(crqs'))
    ]_vars

\* the extended page has just started over a stored list with a reviewed
\* record, read it and written it back
C29_Witness ==
  /\ variant = "extended"
  /\ lastOp.op = "mount"
  /\ lastOp.read = "json"
  /\ lastOp.write = "ok"
  /\ Len(crqs) = 2
  /\ crqs[1].reviewer = "ann"
  /\ storage = Json(JSONstringify(crqs))

\* C30: every time the reviewer prompt opens, its name buffer is empty: when
\* handleStatusChange has just opened the prompt, reviewerName is "".
C30_PromptOpensEmpty ==
  (lastOp.op = "handleStatusChange" /\ isReviewerModalOpen) => reviewerName = ""

====
